---- MODULE Spec2Model ----
(***************************************************************************)
(* Fuel fraud detection: the rule-based detectors (src/api/index.py,       *)
(* src/app.py, src/index.py), the enhanced predictor                       *)
(* (FuelFraudDetect/enhanced_predictor.py) and the persisting predict      *)
(* handler with its per-pump rollup (FuelFraudDetect/app.py, models.py).   *)
(*                                                                         *)
(* Numbers are exact decimals in fixed point: a fuel quantity is a number  *)
(* of 1/100 L, a rate a number of cents per litre, an amount a number of   *)
(* cents; their product fuel_quantity * rate_per_liter is therefore a      *)
(* number of 1/10000 $, and an amount is multiplied by 100 before it is    *)
(* compared with it.  A ratio is kept as the pair [num, den] the code      *)
(* divides.  Binary rounding of the floats is not modelled.                *)
(***************************************************************************)
EXTENDS Integers, Sequences, FiniteSets, TLC

VARIABLES
    responses,        \* the responses returned so far (rule-based handlers), the latest one (review route)
    apiTransactions,  \* src/api/index.py: the committed Transaction rows
    files,            \* model/*.pkl: the artifact files on disk
    predictor,        \* enhanced_predictor: the global EnhancedFraudPredictor
    calls,            \* the predict_fraud calls made so far, with what they read
    pc,               \* FuelFraudDetect/app.py: where each predict request is
    req,              \* each predict request's locals
    transactions,     \* models.py: the committed Transaction rows
    fraud_alerts,     \* models.py: the committed FraudAlert rows
    pump_metrics,     \* models.py: the committed PumpMetrics rows
    trainer,          \* train_model.py: a training run, its position and data
    loader            \* enhanced_predictor.py: a load_model call in progress

dbVars == <<transactions, fraud_alerts, pump_metrics>>

appVars == <<pc, req, transactions, fraud_alerts, pump_metrics>>

vars == <<responses, apiTransactions, files, predictor, calls,
          pc, req, transactions, fraud_alerts, pump_metrics, trainer, loader>>

trainVars == <<trainer, loader>>

----------------------------------------------------------------------------
(* Bounds of the model *)

MaxResponses == 2

MaxCalls == 2

MaxRequests == 2

----------------------------------------------------------------------------
(* Numbers *)

Abs(x) == IF x < 0 THEN -x ELSE x

\* an amount in cents, in the unit of fuel_quantity * rate_per_liter
InExpectedUnits(amount) == amount * 100

\* n dollars in the unit of fuel_quantity * rate_per_liter
DollarsInExpectedUnits(n) == n * 10000

\* A request field as it arrives: text that parses as a number, or text that
\* does not (float("abc") raises ValueError, parseFloat("abc") is NaN).
Num(v) == [kind |-> "num", val |-> v]

NotANumber == [kind |-> "bad", val |-> 0]

IsNumeric(field) == field.kind = "num"

----------------------------------------------------------------------------
(* Rule-based detection *)

HighRiskDiff == 10

MediumRiskDiff == 5

HighRisk == [prediction |-> "High Risk - Amount mismatch detected", class |-> "danger"]

MediumRisk == [prediction |-> "Medium Risk - Minor discrepancy", class |-> "warning"]

LowRisk == [prediction |-> "Low Risk - Transaction appears normal", class |-> "success"]

\* simple_fraud_detector with the high-risk comparison made inclusive
simple_fraud_detector_inclusive(fuel_qty, rate, amount, pump_id, emp_id) ==
    LET expected_amount == fuel_qty * rate
        amount_diff == Abs(InExpectedUnits(amount) - expected_amount)
    IN  IF amount_diff >= DollarsInExpectedUnits(HighRiskDiff) THEN HighRisk
        ELSE IF amount_diff > DollarsInExpectedUnits(MediumRiskDiff) THEN MediumRisk
        ELSE LowRisk

\* simple_fraud_detector with the abs() left out: an undercharge is negative
simple_fraud_detector_signed(fuel_qty, rate, amount, pump_id, emp_id) ==
    LET expected_amount == fuel_qty * rate
        amount_diff == InExpectedUnits(amount) - expected_amount
    IN  IF amount_diff > DollarsInExpectedUnits(HighRiskDiff) THEN HighRisk
        ELSE IF amount_diff > DollarsInExpectedUnits(MediumRiskDiff) THEN MediumRisk
        ELSE LowRisk

\* detect_fraud with the abs() left out
detect_fraud_signed(fuel_qty, rate, amount, pump_id, emp_id) ==
    IF ~IsNumeric(fuel_qty) \/ ~IsNumeric(rate) \/ ~IsNumeric(amount)
    THEN [prediction |-> "Error in calculation", class |-> "danger"]
    ELSE LET expected_amount == fuel_qty.val * rate.val
             amount_diff == InExpectedUnits(amount.val) - expected_amount
         IN  IF amount_diff > DollarsInExpectedUnits(HighRiskDiff) THEN HighRisk
             ELSE IF amount_diff > DollarsInExpectedUnits(MediumRiskDiff) THEN MediumRisk
             ELSE LowRisk

\* src/api/index.py: simple_fraud_detector, on the floats predict parsed
simple_fraud_detector(fuel_qty, rate, amount, pump_id, emp_id) ==
    LET expected_amount == fuel_qty * rate
        amount_diff == Abs(InExpectedUnits(amount) - expected_amount)
    IN  IF amount_diff > DollarsInExpectedUnits(HighRiskDiff) THEN HighRisk
        ELSE IF amount_diff > DollarsInExpectedUnits(MediumRiskDiff) THEN MediumRisk
        ELSE LowRisk

\* src/app.py: detect_fraud, on the JSON values; float() of a value that is
\* no number raises inside the try, and the bare except answers
detect_fraud(fuel_qty, rate, amount, pump_id, emp_id) ==
    IF ~IsNumeric(fuel_qty) \/ ~IsNumeric(rate) \/ ~IsNumeric(amount)
    THEN [prediction |-> "Error in calculation", class |-> "danger"]
    ELSE LET expected_amount == fuel_qty.val * rate.val
             amount_diff == Abs(InExpectedUnits(amount.val) - expected_amount)
         IN  IF amount_diff > DollarsInExpectedUnits(HighRiskDiff) THEN HighRisk
             ELSE IF amount_diff > DollarsInExpectedUnits(MediumRiskDiff) THEN MediumRisk
             ELSE LowRisk

\* src/index.py: the page's submit handler; parseFloat of text that is no
\* number is NaN, every comparison with NaN is false, and the else branch runs
home_submit(fuel_qty, rate, amount) ==
    IF ~IsNumeric(fuel_qty) \/ ~IsNumeric(rate) \/ ~IsNumeric(amount)
    THEN LowRisk
    ELSE LET expected == fuel_qty.val * rate.val
             diff == Abs(InExpectedUnits(amount.val) - expected)
         IN  IF diff > DollarsInExpectedUnits(HighRiskDiff) THEN HighRisk
             ELSE IF diff > DollarsInExpectedUnits(MediumRiskDiff) THEN MediumRisk
             ELSE LowRisk

----------------------------------------------------------------------------
(* The artifact files and load_model *)

\* a file that is absent or that joblib.load cannot read
Missing == [kind |-> "missing"]

\* Python's None
None == [kind |-> "none"]

\* A fitted IsolationForest, as far as the predictor can tell one from
\* another: the number of features it was fitted on and the parameters of
\* its (deterministic) decision function.
Detector(n_features, offset, modulus) ==
    [kind |-> "detector", n_features |-> n_features, offset |-> offset, modulus |-> modulus]

\* A fitted StandardScaler: x -> (x - mean) / scale
Scaler(mean, scale) == [kind |-> "scaler", mean |-> mean, scale |-> scale]

\* train_model.py: feature_columns
feature_columns ==
    <<"fuel_quantity", "rate_per_liter", "total_amount", "pump_id", "employee_id",
      "hour_of_day", "day_of_week", "amount_deviation", "rate_deviation",
      "quantity_anomaly", "is_unusual_hour", "emp_transaction_count",
      "pump_transaction_count">>

FeatureColumnsFile == [kind |-> "columns", names |-> feature_columns]

TrainingStatsFile == [kind |-> "stats", feature_columns |-> feature_columns]

Files(fraud_model, scaler, columns, stats) ==
    [fraud_model |-> fraud_model, scaler |-> scaler,
     feature_columns |-> columns, training_stats |-> stats]

\* model/fraud_model.pkl as train_model.py writes it, and an older detector
\* fitted on the five raw fields
TrainedDetector == Detector(13, 2500, 7000)

BasicDetector == Detector(5, 300, 1000)

\* The artifact directories the process may start with: nothing trained; a
\* training run that stopped after one, two or three of its four dumps; a
\* complete run; an older detector alone; an unreadable fraud_model.pkl
\* beside the other three files; an older detector beside them.
FileSystems ==
    {Files(Missing, Missing, Missing, Missing),
     Files(TrainedDetector, Missing, Missing, Missing),
     Files(TrainedDetector, Scaler(3, 2), Missing, Missing),
     Files(TrainedDetector, Scaler(3, 2), FeatureColumnsFile, Missing),
     Files(TrainedDetector, Scaler(3, 2), FeatureColumnsFile, TrainingStatsFile),
     Files(BasicDetector, Missing, Missing, Missing),
     Files(Missing, Scaler(3, 2), FeatureColumnsFile, TrainingStatsFile),
     Files(BasicDetector, Scaler(3, 2), FeatureColumnsFile, TrainingStatsFile)}

\* enhanced_predictor.py: load_model, after __init__ set the four fields to
\* None.  The four loads assign one after the other; the first that raises
\* leaves the later fields None and the earlier ones set, and the handler
\* loads the detector alone.
load_model(fs) ==
    LET enhanced ==
            CASE fs.fraud_model = Missing ->
                    [model |-> None, scaler |-> None,
                     feature_columns |-> None, training_stats |-> None]
              [] fs.scaler = Missing ->
                    [model |-> fs.fraud_model, scaler |-> None,
                     feature_columns |-> None, training_stats |-> None]
              [] fs.feature_columns = Missing ->
                    [model |-> fs.fraud_model, scaler |-> fs.scaler,
                     feature_columns |-> None, training_stats |-> None]
              [] fs.training_stats = Missing ->
                    [model |-> fs.fraud_model, scaler |-> fs.scaler,
                     feature_columns |-> fs.feature_columns, training_stats |-> None]
              [] OTHER ->
                    [model |-> fs.fraud_model, scaler |-> fs.scaler,
                     feature_columns |-> fs.feature_columns,
                     training_stats |-> fs.training_stats]
        raised ==
            \/ fs.fraud_model = Missing
            \/ fs.scaler = Missing
            \/ fs.feature_columns = Missing
            \/ fs.training_stats = Missing
    IN  IF ~raised
        THEN [enhanced EXCEPT !.model = fs.fraud_model] @@
                 [log |-> <<"INFO Enhanced fraud detection model loaded successfully">>]
        ELSE IF fs.fraud_model # Missing
        THEN [enhanced EXCEPT !.model = fs.fraud_model] @@
                 [log |-> <<"ERROR Error loading enhanced model",
                            "INFO Fallback to basic model">>]
        ELSE [enhanced EXCEPT !.model = None] @@
                 [log |-> <<"ERROR Error loading enhanced model",
                            "ERROR No model available">>]

\* no training run has been started
NotTraining == [pc |-> "off", df |-> <<>>]

\* load_model has returned (it runs when enhanced_predictor is imported)
Returned == [pc |-> "returned"]

----------------------------------------------------------------------------
(* Feature derivation *)

\* a quotient the code computes, numerator over denominator
Ratio(num, den) == [num |-> num, den |-> den]

Whole(n) == Ratio(n, 1)

NormalRateMin == 120

NormalRateMax == 200

NormalQtyMin == 10

NormalQtyMax == 80

UnusualHourBefore == 6

UnusualHourAfter == 22

\* litres in the unit of fuel_quantity
Litres(n) == n * 100

\* datetime.now(), sampled: Sunday 22h, Sunday 23h, Monday 5h, Monday 6h
\* (weekday() is 0 for Monday)
Instants ==
    <<[hour |-> 22, weekday |-> 6], [hour |-> 23, weekday |-> 6],
      [hour |-> 5, weekday |-> 0], [hour |-> 6, weekday |-> 0]>>

\* np.random.randint(50, 200) and np.random.randint(100, 500), sampled
Counters == {<<50, 100>>, <<199, 499>>}

\* between two readings the clock stays or moves to the next instant
ClockAdvances(i, j) == j = i \/ j = i + 1

\* What one predict_fraud call reads besides its arguments: the clock in
\* create_features, the clock again in _generate_explanation (not earlier
\* than the first reading), and the two random counts.
Environments ==
    {[now |-> Instants[p[1]], explained_at |-> Instants[p[2]],
      emp_transaction_count |-> c[1], pump_transaction_count |-> c[2]] :
        p \in {q \in (DOMAIN Instants) \X (DOMAIN Instants) : ClockAdvances(q[1], q[2])},
        c \in Counters}

\* create_features with the abs() of amount_deviation left out
create_features_signed(fuel_quantity, rate_per_liter, total_amount, pump_id, employee_id, env) ==
    LET hour_of_day == env.now.hour
        day_of_week == env.now.weekday + 1
        expected_amount == fuel_quantity * rate_per_liter
        amount_deviation ==
            IF expected_amount > 0
            THEN Ratio(InExpectedUnits(total_amount) - expected_amount, expected_amount)
            ELSE Whole(0)
        rate_deviation ==
            IF rate_per_liter < NormalRateMin \/ rate_per_liter > NormalRateMax
            THEN Ratio(Abs(rate_per_liter - ((NormalRateMin + NormalRateMax) \div 2)),
                       (NormalRateMax - NormalRateMin) \div 2)
            ELSE Whole(0)
        quantity_anomaly ==
            IF fuel_quantity < Litres(NormalQtyMin) \/ fuel_quantity > Litres(NormalQtyMax)
            THEN 1 ELSE 0
        is_unusual_hour ==
            IF hour_of_day < UnusualHourBefore \/ hour_of_day > UnusualHourAfter
            THEN 1 ELSE 0
    IN  <<Ratio(fuel_quantity, 100), Ratio(rate_per_liter, 100), Ratio(total_amount, 100),
          Whole(pump_id), Whole(employee_id),
          Whole(hour_of_day), Whole(day_of_week), amount_deviation, rate_deviation,
          Whole(quantity_anomaly), Whole(is_unusual_hour),
          Whole(env.emp_transaction_count), Whole(env.pump_transaction_count)>>

\* create_features with the ends of the normal rate range counted as outside it
create_features_open_rate(fuel_quantity, rate_per_liter, total_amount, pump_id, employee_id, env) ==
    LET hour_of_day == env.now.hour
        day_of_week == env.now.weekday + 1
        expected_amount == fuel_quantity * rate_per_liter
        amount_deviation ==
            IF expected_amount > 0
            THEN Ratio(Abs(InExpectedUnits(total_amount) - expected_amount), expected_amount)
            ELSE Whole(0)
        rate_deviation ==
            IF rate_per_liter <= NormalRateMin \/ rate_per_liter >= NormalRateMax
            THEN Ratio(Abs(rate_per_liter - ((NormalRateMin + NormalRateMax) \div 2)),
                       (NormalRateMax - NormalRateMin) \div 2)
            ELSE Whole(0)
        quantity_anomaly ==
            IF fuel_quantity < Litres(NormalQtyMin) \/ fuel_quantity > Litres(NormalQtyMax)
            THEN 1 ELSE 0
        is_unusual_hour ==
            IF hour_of_day < UnusualHourBefore \/ hour_of_day > UnusualHourAfter
            THEN 1 ELSE 0
    IN  <<Ratio(fuel_quantity, 100), Ratio(rate_per_liter, 100), Ratio(total_amount, 100),
          Whole(pump_id), Whole(employee_id),
          Whole(hour_of_day), Whole(day_of_week), amount_deviation, rate_deviation,
          Whole(quantity_anomaly), Whole(is_unusual_hour),
          Whole(env.emp_transaction_count), Whole(env.pump_transaction_count)>>

\* create_features with the ends of the normal quantity range counted as outside it
create_features_open_quantity(fuel_quantity, rate_per_liter, total_amount, pump_id, employee_id, env) ==
    LET hour_of_day == env.now.hour
        day_of_week == env.now.weekday + 1
        expected_amount == fuel_quantity * rate_per_liter
        amount_deviation ==
            IF expected_amount > 0
            THEN Ratio(Abs(InExpectedUnits(total_amount) - expected_amount), expected_amount)
            ELSE Whole(0)
        rate_deviation ==
            IF rate_per_liter < NormalRateMin \/ rate_per_liter > NormalRateMax
            THEN Ratio(Abs(rate_per_liter - ((NormalRateMin + NormalRateMax) \div 2)),
                       (NormalRateMax - NormalRateMin) \div 2)
            ELSE Whole(0)
        quantity_anomaly ==
            IF fuel_quantity <= Litres(NormalQtyMin) \/ fuel_quantity >= Litres(NormalQtyMax)
            THEN 1 ELSE 0
        is_unusual_hour ==
            IF hour_of_day < UnusualHourBefore \/ hour_of_day > UnusualHourAfter
            THEN 1 ELSE 0
    IN  <<Ratio(fuel_quantity, 100), Ratio(rate_per_liter, 100), Ratio(total_amount, 100),
          Whole(pump_id), Whole(employee_id),
          Whole(hour_of_day), Whole(day_of_week), amount_deviation, rate_deviation,
          Whole(quantity_anomaly), Whole(is_unusual_hour),
          Whole(env.emp_transaction_count), Whole(env.pump_transaction_count)>>

\* create_features with the hours 6 and 22 counted as unusual
create_features_open_hours(fuel_quantity, rate_per_liter, total_amount, pump_id, employee_id, env) ==
    LET hour_of_day == env.now.hour
        day_of_week == env.now.weekday + 1
        expected_amount == fuel_quantity * rate_per_liter
        amount_deviation ==
            IF expected_amount > 0
            THEN Ratio(Abs(InExpectedUnits(total_amount) - expected_amount), expected_amount)
            ELSE Whole(0)
        rate_deviation ==
            IF rate_per_liter < NormalRateMin \/ rate_per_liter > NormalRateMax
            THEN Ratio(Abs(rate_per_liter - ((NormalRateMin + NormalRateMax) \div 2)),
                       (NormalRateMax - NormalRateMin) \div 2)
            ELSE Whole(0)
        quantity_anomaly ==
            IF fuel_quantity < Litres(NormalQtyMin) \/ fuel_quantity > Litres(NormalQtyMax)
            THEN 1 ELSE 0
        is_unusual_hour ==
            IF hour_of_day <= UnusualHourBefore \/ hour_of_day >= UnusualHourAfter
            THEN 1 ELSE 0
    IN  <<Ratio(fuel_quantity, 100), Ratio(rate_per_liter, 100), Ratio(total_amount, 100),
          Whole(pump_id), Whole(employee_id),
          Whole(hour_of_day), Whole(day_of_week), amount_deviation, rate_deviation,
          Whole(quantity_anomaly), Whole(is_unusual_hour),
          Whole(env.emp_transaction_count), Whole(env.pump_transaction_count)>>

\* create_features with rate_deviation placed before amount_deviation
create_features_swapped(fuel_quantity, rate_per_liter, total_amount, pump_id, employee_id, env) ==
    LET hour_of_day == env.now.hour
        day_of_week == env.now.weekday + 1
        expected_amount == fuel_quantity * rate_per_liter
        amount_deviation ==
            IF expected_amount > 0
            THEN Ratio(Abs(InExpectedUnits(total_amount) - expected_amount), expected_amount)
            ELSE Whole(0)
        rate_deviation ==
            IF rate_per_liter < NormalRateMin \/ rate_per_liter > NormalRateMax
            THEN Ratio(Abs(rate_per_liter - ((NormalRateMin + NormalRateMax) \div 2)),
                       (NormalRateMax - NormalRateMin) \div 2)
            ELSE Whole(0)
        quantity_anomaly ==
            IF fuel_quantity < Litres(NormalQtyMin) \/ fuel_quantity > Litres(NormalQtyMax)
            THEN 1 ELSE 0
        is_unusual_hour ==
            IF hour_of_day < UnusualHourBefore \/ hour_of_day > UnusualHourAfter
            THEN 1 ELSE 0
    IN  <<Ratio(fuel_quantity, 100), Ratio(rate_per_liter, 100), Ratio(total_amount, 100),
          Whole(pump_id), Whole(employee_id),
          Whole(hour_of_day), Whole(day_of_week), rate_deviation, amount_deviation,
          Whole(quantity_anomaly), Whole(is_unusual_hour),
          Whole(env.emp_transaction_count), Whole(env.pump_transaction_count)>>

\* enhanced_predictor.py: create_features; the vector's 13 entries in order
create_features(fuel_quantity, rate_per_liter, total_amount, pump_id, employee_id, env) ==
    LET hour_of_day == env.now.hour
        day_of_week == env.now.weekday + 1
        expected_amount == fuel_quantity * rate_per_liter
        amount_deviation ==
            IF expected_amount > 0
            THEN Ratio(Abs(InExpectedUnits(total_amount) - expected_amount), expected_amount)
            ELSE Whole(0)
        rate_deviation ==
            IF rate_per_liter < NormalRateMin \/ rate_per_liter > NormalRateMax
            THEN Ratio(Abs(rate_per_liter - ((NormalRateMin + NormalRateMax) \div 2)),
                       (NormalRateMax - NormalRateMin) \div 2)
            ELSE Whole(0)
        quantity_anomaly ==
            IF fuel_quantity < Litres(NormalQtyMin) \/ fuel_quantity > Litres(NormalQtyMax)
            THEN 1 ELSE 0
        is_unusual_hour ==
            IF hour_of_day < UnusualHourBefore \/ hour_of_day > UnusualHourAfter
            THEN 1 ELSE 0
    IN  <<Ratio(fuel_quantity, 100), Ratio(rate_per_liter, 100), Ratio(total_amount, 100),
          Whole(pump_id), Whole(employee_id),
          Whole(hour_of_day), Whole(day_of_week), amount_deviation, rate_deviation,
          Whole(quantity_anomaly), Whole(is_unusual_hour),
          Whole(env.emp_transaction_count), Whole(env.pump_transaction_count)>>

----------------------------------------------------------------------------
(* The detector and the scaler (scikit-learn) *)

\* StandardScaler.transform: (x - mean) / scale, entry by entry
transform(scaler, X) ==
    [i \in DOMAIN X |-> Ratio(X[i].num - scaler.mean * X[i].den, X[i].den * scaler.scale)]

RECURSIVE Checksum(_)
Checksum(X) ==
    IF X = <<>> THEN 0
    ELSE (((100 * X[1].num) \div X[1].den) + 3 * Checksum(Tail(X))) % 99991

\* IsolationForest.decision_function, in 1/10000: some fixed function of the
\* vector, negative for an outlier.  The forest itself is not modelled; what
\* is kept is that the score is a function of the fitted detector and of
\* every entry of the vector, and of nothing else.
decision_function(model, X) == model.offset - (Checksum(X) % model.modulus)

\* IsolationForest.predict: -1 where decision_function is negative
predict(model, X) == IF decision_function(model, X) < 0 THEN -1 ELSE 1

\* scikit-learn refuses a vector whose length is not the fitted one
AcceptsShape(model, X) == Len(X) = model.n_features

----------------------------------------------------------------------------
(* Explanation and scoring *)

Line(text, value) == [text |-> text, value |-> value]

\* f"{confidence:.3f}": a number of 1/10000 printed in 1/1000
Format3(confidence) == (confidence + 5) \div 10

\* _generate_explanation with the test for an undercharge turned round
generate_explanation_reversed(fuel_quantity, rate_per_liter, total_amount, features, is_fraud, confidence, env) ==
    LET expected_amount == fuel_quantity * rate_per_liter
        amount_difference == Abs(InExpectedUnits(total_amount) - expected_amount)
        \* amount_deviation_pct > 20, with the division multiplied out
        deviation_above_20 ==
            expected_amount > 0 /\ amount_difference * 100 > 20 * expected_amount
        amount_lines ==
            IF deviation_above_20
            THEN IF InExpectedUnits(total_amount) > expected_amount
                 THEN <<Line("Undercharged by", amount_difference)>>
                 ELSE <<Line("Overcharged by", amount_difference)>>
            ELSE <<>>
        rate_lines ==
            IF rate_per_liter < 120
            THEN <<Line("Unusually low fuel rate", rate_per_liter)>>
            ELSE IF rate_per_liter > 200
            THEN <<Line("Unusually high fuel rate", rate_per_liter)>>
            ELSE <<>>
        quantity_lines ==
            IF fuel_quantity < Litres(10)
            THEN <<Line("Suspiciously low fuel quantity", fuel_quantity)>>
            ELSE IF fuel_quantity > Litres(80)
            THEN <<Line("Suspiciously high fuel quantity", fuel_quantity)>>
            ELSE <<>>
        hour_lines ==
            IF env.explained_at.hour < 6 \/ env.explained_at.hour > 22
            THEN <<Line("Transaction during unusual hours", 0)>>
            ELSE <<>>
    IN  (IF is_fraud
         THEN <<Line("FRAUD DETECTED:", 0)>> \o amount_lines \o rate_lines
                  \o quantity_lines \o hour_lines
         ELSE <<Line("NORMAL TRANSACTION:", 0),
                Line("Amount matches expected", total_amount),
                Line("Normal fuel rate", rate_per_liter),
                Line("Reasonable quantity", fuel_quantity)>>)
        \o <<Line("Confidence", Format3(confidence))>>

\* _generate_explanation with the hour checked on the normal path as well
generate_explanation_hour_always(fuel_quantity, rate_per_liter, total_amount, features, is_fraud, confidence, env) ==
    LET expected_amount == fuel_quantity * rate_per_liter
        amount_difference == Abs(InExpectedUnits(total_amount) - expected_amount)
        \* amount_deviation_pct > 20, with the division multiplied out
        deviation_above_20 ==
            expected_amount > 0 /\ amount_difference * 100 > 20 * expected_amount
        amount_lines ==
            IF deviation_above_20
            THEN IF InExpectedUnits(total_amount) < expected_amount
                 THEN <<Line("Undercharged by", amount_difference)>>
                 ELSE <<Line("Overcharged by", amount_difference)>>
            ELSE <<>>
        rate_lines ==
            IF rate_per_liter < 120
            THEN <<Line("Unusually low fuel rate", rate_per_liter)>>
            ELSE IF rate_per_liter > 200
            THEN <<Line("Unusually high fuel rate", rate_per_liter)>>
            ELSE <<>>
        quantity_lines ==
            IF fuel_quantity < Litres(10)
            THEN <<Line("Suspiciously low fuel quantity", fuel_quantity)>>
            ELSE IF fuel_quantity > Litres(80)
            THEN <<Line("Suspiciously high fuel quantity", fuel_quantity)>>
            ELSE <<>>
        hour_lines ==
            IF env.explained_at.hour < 6 \/ env.explained_at.hour > 22
            THEN <<Line("Transaction during unusual hours", 0)>>
            ELSE <<>>
    IN  (IF is_fraud
         THEN <<Line("FRAUD DETECTED:", 0)>> \o amount_lines \o rate_lines
                  \o quantity_lines \o hour_lines
         ELSE <<Line("NORMAL TRANSACTION:", 0),
                Line("Amount matches expected", total_amount),
                Line("Normal fuel rate", rate_per_liter),
                Line("Reasonable quantity", fuel_quantity)>> \o hour_lines)
        \o <<Line("Confidence", Format3(confidence))>>

\* enhanced_predictor.py: _generate_explanation; the lines it joins, in order
generate_explanation(fuel_quantity, rate_per_liter, total_amount, features, is_fraud, confidence, env) ==
    LET expected_amount == fuel_quantity * rate_per_liter
        amount_difference == Abs(InExpectedUnits(total_amount) - expected_amount)
        \* amount_deviation_pct > 20, with the division multiplied out
        deviation_above_20 ==
            expected_amount > 0 /\ amount_difference * 100 > 20 * expected_amount
        amount_lines ==
            IF deviation_above_20
            THEN IF InExpectedUnits(total_amount) < expected_amount
                 THEN <<Line("Undercharged by", amount_difference)>>
                 ELSE <<Line("Overcharged by", amount_difference)>>
            ELSE <<>>
        rate_lines ==
            IF rate_per_liter < 120
            THEN <<Line("Unusually low fuel rate", rate_per_liter)>>
            ELSE IF rate_per_liter > 200
            THEN <<Line("Unusually high fuel rate", rate_per_liter)>>
            ELSE <<>>
        quantity_lines ==
            IF fuel_quantity < Litres(10)
            THEN <<Line("Suspiciously low fuel quantity", fuel_quantity)>>
            ELSE IF fuel_quantity > Litres(80)
            THEN <<Line("Suspiciously high fuel quantity", fuel_quantity)>>
            ELSE <<>>
        hour_lines ==
            IF env.explained_at.hour < 6 \/ env.explained_at.hour > 22
            THEN <<Line("Transaction during unusual hours", 0)>>
            ELSE <<>>
    IN  (IF is_fraud
         THEN <<Line("FRAUD DETECTED:", 0)>> \o amount_lines \o rate_lines
                  \o quantity_lines \o hour_lines
         ELSE <<Line("NORMAL TRANSACTION:", 0),
                Line("Amount matches expected", total_amount),
                Line("Normal fuel rate", rate_per_liter),
                Line("Reasonable quantity", fuel_quantity)>>)
        \o <<Line("Confidence", Format3(confidence))>>

Decision(is_fraud, confidence, explanation, features, path) ==
    [is_fraud |-> is_fraud, confidence |-> confidence, explanation |-> explanation,
     features |-> features, path |-> path]

\* predict_fraud with the abs() of the anomaly score left out
predict_fraud_signed(self, fuel_quantity, rate_per_liter, total_amount, pump_id, employee_id, env) ==
    IF self.model = None
    THEN Decision(FALSE, 0, <<Line("Model not available", 0)>>, <<>>, "unavailable")
    ELSE IF self.feature_columns # None
    THEN LET features == create_features(fuel_quantity, rate_per_liter, total_amount,
                                         pump_id, employee_id, env)
             features_scaled ==
                 IF self.scaler # None THEN transform(self.scaler, features) ELSE features
         IN  IF ~AcceptsShape(self.model, features_scaled)
             THEN Decision(FALSE, 0, <<Line("Prediction error", 0)>>, features, "error")
             ELSE LET prediction == predict(self.model, features_scaled)
                      anomaly_score == decision_function(self.model, features_scaled)
                      is_fraud == prediction = -1
                      confidence == anomaly_score
                  IN  Decision(is_fraud, confidence,
                               generate_explanation(fuel_quantity, rate_per_liter,
                                   total_amount, features, is_fraud, confidence, env),
                               features, "enhanced")
    ELSE LET features == <<Ratio(fuel_quantity, 100), Ratio(rate_per_liter, 100),
                           Ratio(total_amount, 100), Whole(pump_id), Whole(employee_id)>>
         IN  IF ~AcceptsShape(self.model, features)
             THEN Decision(FALSE, 0, <<Line("Prediction error", 0)>>, features, "error")
             ELSE LET prediction == predict(self.model, features)
                      anomaly_score == decision_function(self.model, features)
                  IN  Decision(prediction = -1, anomaly_score,
                               <<Line("Basic fraud detection analysis", 0)>>,
                               features, "basic")

\* predict_fraud returning the confidence as the explanation prints it
predict_fraud_narrated(self, fuel_quantity, rate_per_liter, total_amount, pump_id, employee_id, env) ==
    IF self.model = None
    THEN Decision(FALSE, 0, <<Line("Model not available", 0)>>, <<>>, "unavailable")
    ELSE IF self.feature_columns # None
    THEN LET features == create_features(fuel_quantity, rate_per_liter, total_amount,
                                         pump_id, employee_id, env)
             features_scaled ==
                 IF self.scaler # None THEN transform(self.scaler, features) ELSE features
         IN  IF ~AcceptsShape(self.model, features_scaled)
             THEN Decision(FALSE, 0, <<Line("Prediction error", 0)>>, features, "error")
             ELSE LET prediction == predict(self.model, features_scaled)
                      anomaly_score == decision_function(self.model, features_scaled)
                      is_fraud == prediction = -1
                      confidence == Abs(anomaly_score)
                  IN  Decision(is_fraud, Format3(confidence) * 10,
                               generate_explanation(fuel_quantity, rate_per_liter,
                                   total_amount, features, is_fraud, confidence, env),
                               features, "enhanced")
    ELSE LET features == <<Ratio(fuel_quantity, 100), Ratio(rate_per_liter, 100),
                           Ratio(total_amount, 100), Whole(pump_id), Whole(employee_id)>>
         IN  IF ~AcceptsShape(self.model, features)
             THEN Decision(FALSE, 0, <<Line("Prediction error", 0)>>, features, "error")
             ELSE LET prediction == predict(self.model, features)
                      anomaly_score == decision_function(self.model, features)
                  IN  Decision(prediction = -1, Abs(anomaly_score),
                               <<Line("Basic fraud detection analysis", 0)>>,
                               features, "basic")

\* enhanced_predictor.py: predict_fraud.  The result is the returned triple;
\* features and path record the vector that was scored and the branch taken.
predict_fraud(self, fuel_quantity, rate_per_liter, total_amount, pump_id, employee_id, env) ==
    IF self.model = None
    THEN Decision(FALSE, 0, <<Line("Model not available", 0)>>, <<>>, "unavailable")
    ELSE IF self.feature_columns # None
    THEN LET features == create_features(fuel_quantity, rate_per_liter, total_amount,
                                         pump_id, employee_id, env)
             features_scaled ==
                 IF self.scaler # None THEN transform(self.scaler, features) ELSE features
         IN  IF ~AcceptsShape(self.model, features_scaled)
             THEN Decision(FALSE, 0, <<Line("Prediction error", 0)>>, features, "error")
             ELSE LET prediction == predict(self.model, features_scaled)
                      anomaly_score == decision_function(self.model, features_scaled)
                      is_fraud == prediction = -1
                      confidence == Abs(anomaly_score)
                  IN  Decision(is_fraud, confidence,
                               generate_explanation(fuel_quantity, rate_per_liter,
                                   total_amount, features, is_fraud, confidence, env),
                               features, "enhanced")
    ELSE LET features == <<Ratio(fuel_quantity, 100), Ratio(rate_per_liter, 100),
                           Ratio(total_amount, 100), Whole(pump_id), Whole(employee_id)>>
         IN  IF ~AcceptsShape(self.model, features)
             THEN Decision(FALSE, 0, <<Line("Prediction error", 0)>>, features, "error")
             ELSE LET prediction == predict(self.model, features)
                      anomaly_score == decision_function(self.model, features)
                  IN  Decision(prediction = -1, Abs(anomaly_score),
                               <<Line("Basic fraud detection analysis", 0)>>,
                               features, "basic")

----------------------------------------------------------------------------
(* Inputs of the rule-based handlers *)

\* <<fuel_qty, rate, amount>>: 50 L at 1.50 with differences of 50, 0, 5.00,
\* 5.01, 10.00 and 10.01 dollars either way, and 25.5 L at 1.45 with
\* differences of 0.005, 5.005 and 10.005
RuleTriples ==
    ({5000} \X {150} \X {2500, 7500, 8000, 8001, 8500, 8501, 6499})
        \cup ({2550} \X {145} \X {3698, 4198, 4698})
        \cup {<<-500, 150, 1000>>, <<0, 150, 1>>}

RuleIds == {<<1, 101>>, <<2, 101>>, <<1, 102>>}

RuleForms ==
    {[fuel_qty |-> Num(t[1]), rate |-> Num(t[2]), amount |-> Num(t[3]),
      pump_id |-> Num(i[1]), emp_id |-> Num(i[2])] : t \in RuleTriples, i \in RuleIds}
    \cup {[fuel_qty |-> NotANumber, rate |-> Num(150), amount |-> Num(7500),
           pump_id |-> Num(1), emp_id |-> Num(101)],
          [fuel_qty |-> Num(5000), rate |-> Num(150), amount |-> NotANumber,
           pump_id |-> Num(1), emp_id |-> Num(101)],
          [fuel_qty |-> Num(5000), rate |-> Num(150), amount |-> Num(2500),
           pump_id |-> NotANumber, emp_id |-> NotANumber]}

Response(handler, form, result, persisted) ==
    [handler |-> handler, form |-> form, prediction |-> result.prediction,
     class |-> result.class, transaction_id |-> persisted]

----------------------------------------------------------------------------
(* The rule-based handlers *)

RuleInit ==
    /\ responses = <<>>
    /\ apiTransactions = <<>>
    /\ files = Files(Missing, Missing, Missing, Missing)
    /\ predictor = load_model(files)
    /\ calls = <<>>
    /\ pc = [r \in 1..MaxRequests |-> "idle"]
    /\ req = [r \in 1..MaxRequests |-> "unused"]
    /\ transactions = <<>>
    /\ fraud_alerts = <<>>
    /\ pump_metrics = <<>>
    /\ trainer = NotTraining
    /\ loader = Returned

\* src/api/index.py: predict.  float() of the three amounts, then the
\* detector, then the row is added and committed; pump_id and emp_id are
\* stored as the text they came as.
api_predict(form) ==
    /\ Len(responses) < MaxResponses
    /\ IF ~IsNumeric(form.fuel_qty) \/ ~IsNumeric(form.rate) \/ ~IsNumeric(form.amount)
       THEN /\ responses' = Append(responses,
                   Response("api/index.py", form,
                            [prediction |-> "Error: Please enter valid numeric values",
                             class |-> "danger"], 0))
            /\ UNCHANGED apiTransactions
       ELSE LET result == simple_fraud_detector(form.fuel_qty.val, form.rate.val,
                               form.amount.val, form.pump_id, form.emp_id)
                id == Len(apiTransactions) + 1
            IN  /\ apiTransactions' = Append(apiTransactions,
                       [id |-> id, fuel_qty |-> form.fuel_qty.val, rate |-> form.rate.val,
                        amount |-> form.amount.val, pump_id |-> form.pump_id,
                        emp_id |-> form.emp_id, prediction |-> result.prediction])
                /\ responses' = Append(responses, Response("api/index.py", form, result, id))

\* src/app.py: predict (/api/predict): stateless
json_predict(data) ==
    /\ Len(responses) < MaxResponses
    /\ responses' = Append(responses,
           Response("app.py", data,
                    detect_fraud(data.fuel_qty, data.rate, data.amount,
                                 data.pump_id, data.emp_id), 0))
    /\ UNCHANGED apiTransactions

\* src/index.py: the submit handler of the page: stateless, in the browser
page_submit(form) ==
    /\ Len(responses) < MaxResponses
    /\ responses' = Append(responses,
           Response("index.py", form,
                    home_submit(form.fuel_qty, form.rate, form.amount), 0))
    /\ UNCHANGED apiTransactions

ApiPredict == \E form \in RuleForms : api_predict(form)

JsonPredict == \E data \in RuleForms : json_predict(data)

PageSubmit == \E form \in RuleForms : page_submit(form)

RuleNext ==
    \/ ApiPredict /\ UNCHANGED <<files, predictor, calls, trainer, loader>> /\ UNCHANGED appVars
    \/ JsonPredict /\ UNCHANGED <<files, predictor, calls, trainer, loader>> /\ UNCHANGED appVars
    \/ PageSubmit /\ UNCHANGED <<files, predictor, calls, trainer, loader>> /\ UNCHANGED appVars

RuleSpec == RuleInit /\ [][RuleNext]_vars

----------------------------------------------------------------------------
(* Calls of the predictor *)

\* <<fuel_quantity, rate_per_liter, total_amount, pump_id, employee_id>>:
\* an undercharge, an overcharge, the rounded charge of 25.5 L at 1.45, a
\* low rate charged exactly and a small quantity charged exactly
Transactions ==
    {<<5000, 150, 2500, 4, 130>>, <<2000, 140, 5000, 1, 110>>,
     <<2550, 145, 3698, 3, 101>>, <<2500, 80, 2000, 3, 140>>,
     <<200, 150, 300, 2, 125>>}

PredictorInit ==
    /\ files \in FileSystems
    /\ predictor = load_model(files)
    /\ calls = <<>>
    /\ responses = <<>>
    /\ apiTransactions = <<>>
    /\ pc = [r \in 1..MaxRequests |-> "idle"]
    /\ req = [r \in 1..MaxRequests |-> "unused"]
    /\ transactions = <<>>
    /\ fraud_alerts = <<>>
    /\ pump_metrics = <<>>
    /\ trainer = NotTraining
    /\ loader = Returned

\* one call of enhanced_predictor.predict_fraud
call_predict_fraud(t, env) ==
    /\ Len(calls) < MaxCalls
    /\ calls' = Append(calls,
           [args |-> t, env |-> env, self |-> predictor,
            result |-> predict_fraud(predictor, t[1], t[2], t[3], t[4], t[5], env)])
    /\ UNCHANGED <<files, predictor, responses, apiTransactions, trainer, loader>>
    /\ UNCHANGED appVars

PredictFraud == \E t \in Transactions, env \in Environments : call_predict_fraud(t, env)

PredictorNext == PredictFraud

PredictorSpec == PredictorInit /\ [][PredictorNext]_vars

----------------------------------------------------------------------------
(* FuelFraudDetect/app.py: predict, with models.py *)

Requests == 1..MaxRequests

InFlight == {"alert", "lookup", "update", "commit"}

\* request.form of /predict: two pumps, transactions the detectors tell
\* apart, and fields the handler must refuse
AppForms ==
    {[fuel_qty |-> Num(t[1]), rate |-> Num(t[2]), amount |-> Num(t[3]),
      pump_id |-> Num(t[4]), emp_id |-> Num(t[5])] :
        t \in {<<5000, 150, 2500, 1, 130>>, <<2550, 145, 3698, 1, 101>>,
               <<200, 150, 300, 2, 125>>, <<2000, 140, 5000, 2, 110>>,
               <<0, 150, 2500, 1, 130>>, <<5000, 150, 7500, 0, 130>>}}
    \cup {[fuel_qty |-> Num(5000), rate |-> NotANumber, amount |-> Num(7500),
           pump_id |-> Num(1), emp_id |-> Num(130)],
          [fuel_qty |-> Num(5000), rate |-> Num(150), amount |-> Num(7500),
           pump_id |-> NotANumber, emp_id |-> Num(130)]}

\* what predict_fraud reads while a request is served
AppEnvironments ==
    {e \in Environments :
        /\ e.emp_transaction_count = 50
        /\ e.explained_at = e.now
        /\ e.now.hour \in {23, 6}}

NoStats ==
    [total_transactions |-> 0, fraud_count |-> 0, fraud_percentage |-> Whole(0),
     total_fuel_dispensed |-> 0, total_revenue |-> 0]

NoRequest ==
    [form |-> [fuel_qty |-> NotANumber, rate |-> NotANumber, amount |-> NotANumber,
               pump_id |-> NotANumber, emp_id |-> NotANumber],
     is_fraud |-> FALSE, fraud_score |-> 0, transaction_id |-> 0,
     found |-> 0, stats |-> NoStats, prediction |-> "", prediction_class |-> ""]

RECURSIVE SumSeq(_)
\* SUM over a column
SumSeq(xs) == IF xs = <<>> THEN 0 ELSE xs[1] + SumSeq(Tail(xs))

FraudFlag(t) == IF t.is_fraud THEN 1 ELSE 0

\* update_metrics with the fraud count taken over every pump's transactions
update_metrics_unfiltered(pump_id, rows) ==
    LET OfPump(t) == t.pump_id = pump_id
        mine == SelectSeq(rows, OfPump)
        total == Len(mine)
        fraud == SumSeq([i \in DOMAIN rows |-> FraudFlag(rows[i])])
    IN  [total_transactions |-> total,
         fraud_count |-> fraud,
         fraud_percentage |-> IF total > 0 THEN Ratio(fraud * 100, total) ELSE Whole(0),
         total_fuel_dispensed |-> SumSeq([i \in DOMAIN mine |-> mine[i].fuel_quantity]),
         total_revenue |-> SumSeq([i \in DOMAIN mine |-> mine[i].total_amount])]

\* update_metrics with the aggregate taken over every pump's transactions
update_metrics_all_pumps(pump_id, rows) ==
    LET mine == rows
        total == Len(mine)
        fraud == SumSeq([i \in DOMAIN mine |-> FraudFlag(mine[i])])
    IN  [total_transactions |-> total,
         fraud_count |-> fraud,
         fraud_percentage |-> IF total > 0 THEN Ratio(fraud * 100, total) ELSE Whole(0),
         total_fuel_dispensed |-> SumSeq([i \in DOMAIN mine |-> mine[i].fuel_quantity]),
         total_revenue |-> SumSeq([i \in DOMAIN mine |-> mine[i].total_amount])]

\* models.py: PumpMetrics.update_metrics: the aggregate query over the
\* committed transactions of the pump (COUNT, SUM, SUM, SUM of the fraud
\* case; a NULL sum of no rows becomes 0) and the fields it assigns
update_metrics(pump_id, rows) ==
    LET OfPump(t) == t.pump_id = pump_id
        mine == SelectSeq(rows, OfPump)
        total == Len(mine)
        fraud == SumSeq([i \in DOMAIN mine |-> FraudFlag(mine[i])])
    IN  [total_transactions |-> total,
         fraud_count |-> fraud,
         fraud_percentage |-> IF total > 0 THEN Ratio(fraud * 100, total) ELSE Whole(0),
         total_fuel_dispensed |-> SumSeq([i \in DOMAIN mine |-> mine[i].fuel_quantity]),
         total_revenue |-> SumSeq([i \in DOMAIN mine |-> mine[i].total_amount])]

\* PumpMetrics.query.filter_by(pump_id=pump_id).first(): the row's id, or 0
MetricsRowOf(pump_id) ==
    IF \E k \in DOMAIN pump_metrics : pump_metrics[k].pump_id = pump_id
    THEN CHOOSE k \in DOMAIN pump_metrics :
             /\ pump_metrics[k].pump_id = pump_id
             /\ \A j \in DOMAIN pump_metrics : pump_metrics[j].pump_id = pump_id => k <= j
    ELSE 0

PumpOf(r) == req[r].form.pump_id.val

AppInit ==
    /\ files \in FileSystems
    /\ predictor = load_model(files)
    /\ calls = <<>>
    /\ responses = <<>>
    /\ apiTransactions = <<>>
    /\ pc = [r \in Requests |-> "idle"]
    /\ req = [r \in Requests |-> NoRequest]
    /\ transactions = <<>>
    /\ fraud_alerts = <<>>
    /\ pump_metrics = <<>>
    /\ trainer = NotTraining
    /\ loader = Returned

Rejected(r, form, message) ==
    /\ pc' = [pc EXCEPT ![r] = "rejected"]
    /\ req' = [req EXCEPT ![r] = [NoRequest EXCEPT !.form = form, !.prediction = message,
                                                   !.prediction_class = "danger"]]
    /\ UNCHANGED dbVars

\* app.py lines 63-133: the form is parsed and validated, predict_fraud
\* scores it, and the Transaction row is added and committed.  The module's
\* `model` is the enhanced_predictor instance (its import raises nothing, as
\* load_model catches every exception), so the hasattr branch is the one run.
submit(r, form, env) ==
    /\ pc[r] = "idle"
    /\ \A o \in Requests : o < r => pc[o] # "idle"   \* numbered as they arrive
    /\ IF \/ ~IsNumeric(form.fuel_qty) \/ ~IsNumeric(form.rate) \/ ~IsNumeric(form.amount)
          \/ ~IsNumeric(form.pump_id) \/ ~IsNumeric(form.emp_id)
       THEN Rejected(r, form, "Error: Please enter valid numeric values")
       ELSE IF form.fuel_qty.val <= 0 \/ form.rate.val <= 0 \/ form.amount.val <= 0
       THEN Rejected(r, form, "Error: Quantities and rates must be positive")
       ELSE IF form.pump_id.val <= 0 \/ form.emp_id.val <= 0
       THEN Rejected(r, form, "Error: Pump ID and Employee ID must be positive integers")
       ELSE LET d == predict_fraud(predictor, form.fuel_qty.val, form.rate.val,
                         form.amount.val, form.pump_id.val, form.emp_id.val, env)
                id == Len(transactions) + 1
            IN  /\ transactions' = Append(transactions,
                       [id |-> id, fuel_quantity |-> form.fuel_qty.val,
                        rate_per_liter |-> form.rate.val, total_amount |-> form.amount.val,
                        pump_id |-> form.pump_id.val, employee_id |-> form.emp_id.val,
                        is_fraud |-> d.is_fraud, fraud_score |-> d.confidence])
                /\ req' = [req EXCEPT ![r] =
                       [NoRequest EXCEPT !.form = form, !.is_fraud = d.is_fraud,
                            !.fraud_score = d.confidence, !.transaction_id = id,
                            !.prediction = IF d.is_fraud THEN "Fraud Detected"
                                           ELSE "Transaction Normal",
                            !.prediction_class = IF d.is_fraud THEN "danger" ELSE "success"]]
                /\ pc' = [pc EXCEPT ![r] = IF d.is_fraud THEN "alert" ELSE "lookup"]
                /\ UNCHANGED <<fraud_alerts, pump_metrics>>

\* create_alert that links the alert to its own id instead of the transaction's
create_alert_unlinked(r) ==
    /\ pc[r] = "alert"
    /\ fraud_alerts' = Append(fraud_alerts,
           [id |-> Len(fraud_alerts) + 1, transaction_id |-> Len(fraud_alerts) + 1,
            alert_level |-> "HIGH", reviewed |-> FALSE, reviewed_by |-> None,
            reviewed_at |-> None])
    /\ pc' = [pc EXCEPT ![r] = "lookup"]
    /\ UNCHANGED <<req, transactions, pump_metrics>>

\* app.py lines 136-143: the alert of a fraud verdict is added and committed
create_alert(r) ==
    /\ pc[r] = "alert"
    /\ fraud_alerts' = Append(fraud_alerts,
           [id |-> Len(fraud_alerts) + 1, transaction_id |-> req[r].transaction_id,
            alert_level |-> "HIGH", reviewed |-> FALSE, reviewed_by |-> None,
            reviewed_at |-> None])
    /\ pc' = [pc EXCEPT ![r] = "lookup"]
    /\ UNCHANGED <<req, transactions, pump_metrics>>

\* app.py line 146: the pump's rollup row is looked up
lookup_metrics(r) ==
    /\ pc[r] = "lookup"
    /\ req' = [req EXCEPT ![r].found = MetricsRowOf(PumpOf(r))]
    /\ pc' = [pc EXCEPT ![r] = "update"]
    /\ UNCHANGED dbVars

\* another request has inserted a row for the pump and not yet committed it
InsertPending(r) ==
    \E o \in Requests \ {r} :
        pc[o] = "commit" /\ req[o].found = 0 /\ PumpOf(o) = PumpOf(r)

\* refresh_metrics against a table whose pump_id column is not unique
refresh_metrics_unconstrained(r) ==
    /\ pc[r] = "update"
    /\ pc' = [pc EXCEPT ![r] = "commit"]
    /\ req' = [req EXCEPT ![r].stats = update_metrics(PumpOf(r), transactions)]
    /\ UNCHANGED dbVars

\* app.py lines 147-151: a row not found is added to the session, and
\* update_metrics runs its aggregate query.  The query autoflushes the
\* session, so the new row is inserted here: the insert waits for another
\* session's uncommitted insert of the same pump_id, and fails on the unique
\* pump_id once a row of that pump is committed; the exception reaches the
\* handler's except, which answers with the error.
refresh_metrics(r) ==
    /\ pc[r] = "update"
    /\ req[r].found = 0 => ~InsertPending(r)
    /\ IF req[r].found = 0 /\ MetricsRowOf(PumpOf(r)) # 0
       THEN /\ pc' = [pc EXCEPT ![r] = "error"]
            /\ req' = [req EXCEPT ![r].prediction = "Error: IntegrityError",
                                  ![r].prediction_class = "danger"]
       ELSE /\ pc' = [pc EXCEPT ![r] = "commit"]
            /\ req' = [req EXCEPT ![r].stats = update_metrics(PumpOf(r), transactions)]
    /\ UNCHANGED dbVars

\* app.py line 152: the commit writes the row with the fields update_metrics
\* assigned, and the verdict is rendered
commit_metrics(r) ==
    /\ pc[r] = "commit"
    /\ pump_metrics' =
           IF req[r].found = 0
           THEN Append(pump_metrics,
                    [id |-> Len(pump_metrics) + 1, pump_id |-> PumpOf(r)] @@ req[r].stats)
           ELSE [pump_metrics EXCEPT ![req[r].found] =
                    [id |-> req[r].found, pump_id |-> PumpOf(r)] @@ req[r].stats]
    /\ pc' = [pc EXCEPT ![r] = "done"]
    /\ UNCHANGED <<req, transactions, fraud_alerts>>

Submit == \E r \in Requests, form \in AppForms, env \in AppEnvironments : submit(r, form, env)

CreateAlert == \E r \in Requests : create_alert(r)

LookupMetrics == \E r \in Requests : lookup_metrics(r)

RefreshMetrics == \E r \in Requests : refresh_metrics(r)

CommitMetrics == \E r \in Requests : commit_metrics(r)

\* the threaded server: requests interleave at every database round trip
Next ==
    \/ Submit /\ UNCHANGED <<responses, apiTransactions, files, predictor, calls, trainer, loader>>
    \/ CreateAlert /\ UNCHANGED <<responses, apiTransactions, files, predictor, calls, trainer, loader>>
    \/ LookupMetrics /\ UNCHANGED <<responses, apiTransactions, files, predictor, calls, trainer, loader>>
    \/ RefreshMetrics /\ UNCHANGED <<responses, apiTransactions, files, predictor, calls, trainer, loader>>
    \/ CommitMetrics /\ UNCHANGED <<responses, apiTransactions, files, predictor, calls, trainer, loader>>

Spec == AppInit /\ [][Next]_vars

\* no other request is being served
Alone(r) == \A o \in Requests \ {r} : pc[o] \notin InFlight

\* requests served one at a time: a request starts only when none is in flight
SeqNext ==
    \/ (\E r \in Requests, form \in AppForms, env \in AppEnvironments :
            Alone(r) /\ submit(r, form, env))
          /\ UNCHANGED <<responses, apiTransactions, files, predictor, calls, trainer, loader>>
    \/ CreateAlert /\ UNCHANGED <<responses, apiTransactions, files, predictor, calls, trainer, loader>>
    \/ LookupMetrics /\ UNCHANGED <<responses, apiTransactions, files, predictor, calls, trainer, loader>>
    \/ RefreshMetrics /\ UNCHANGED <<responses, apiTransactions, files, predictor, calls, trainer, loader>>
    \/ CommitMetrics /\ UNCHANGED <<responses, apiTransactions, files, predictor, calls, trainer, loader>>

SeqSpec == AppInit /\ [][SeqNext]_vars

----------------------------------------------------------------------------
(* dashboard.py: review_alert, beside the predict requests *)

\* the ids a review may be asked for: those of the alerts there can be, and
\* one more
AlertIds == 1..(MaxRequests + 1)

\* datetime.utcnow() at the reviews: instants, none of them None
ReviewTimes == {[kind |-> "datetime", at |-> t] : t \in 1..2}

\* dashboard.py line 83: the reviewer's name, a string and not None
SystemUser == [kind |-> "str", val |-> "System User"]

\* the answer of the review route: jsonify(...) or the 404 of get_or_404
ReviewResponse(alert_id, status) ==
    [handler |-> "dashboard.py", alert_id |-> alert_id, status |-> status]

\* review_alert with the flag toggled instead of set
review_alert_toggle(alert_id, utcnow) ==
    /\ alert_id \in DOMAIN fraud_alerts
    /\ fraud_alerts' = [fraud_alerts EXCEPT ![alert_id] =
           [@ EXCEPT !.reviewed = ~@, !.reviewed_at = utcnow,
                     !.reviewed_by = SystemUser]]
    /\ responses' = <<ReviewResponse(alert_id, 200)>>
    /\ UNCHANGED <<pc, req, transactions, pump_metrics>>

\* dashboard.py lines 77-87, an id with a row: the three fields are set and
\* committed, and the route answers with success
review_alert(alert_id, utcnow) ==
    /\ alert_id \in DOMAIN fraud_alerts
    /\ fraud_alerts' = [fraud_alerts EXCEPT ![alert_id] =
           [@ EXCEPT !.reviewed = TRUE, !.reviewed_at = utcnow,
                     !.reviewed_by = SystemUser]]
    /\ responses' = <<ReviewResponse(alert_id, 200)>>
    /\ UNCHANGED <<pc, req, transactions, pump_metrics>>

\* dashboard.py line 80, an id without a row: get_or_404 aborts the request
\* before anything is written
review_missing_alert(alert_id) ==
    /\ alert_id \notin DOMAIN fraud_alerts
    /\ responses' = <<ReviewResponse(alert_id, 404)>>
    /\ UNCHANGED appVars

\* one review request; responses holds the answer of the latest one
ReviewAlert ==
    /\ \E alert_id \in AlertIds :
           \/ \E utcnow \in ReviewTimes : review_alert(alert_id, utcnow)
           \/ review_missing_alert(alert_id)
    /\ UNCHANGED <<apiTransactions, files, predictor, calls, trainer, loader>>

\* predict requests one after the other, and reviews at any moment of them
DashNext ==
    \/ (\E r \in Requests, form \in AppForms, env \in AppEnvironments :
            Alone(r) /\ submit(r, form, env))
          /\ UNCHANGED <<responses, apiTransactions, files, predictor, calls, trainer, loader>>
    \/ CreateAlert /\ UNCHANGED <<responses, apiTransactions, files, predictor, calls, trainer, loader>>
    \/ LookupMetrics /\ UNCHANGED <<responses, apiTransactions, files, predictor, calls, trainer, loader>>
    \/ RefreshMetrics /\ UNCHANGED <<responses, apiTransactions, files, predictor, calls, trainer, loader>>
    \/ CommitMetrics /\ UNCHANGED <<responses, apiTransactions, files, predictor, calls, trainer, loader>>
    \/ ReviewAlert

DashSpec == AppInit /\ [][DashNext]_vars

----------------------------------------------------------------------------
(* train_model.py: feature derivation at training time *)

\* what float division gives for a zero divisor: no exception, but inf for
\* a non-zero dividend and nan for 0 / 0
Infinity == Ratio(1, 0)

NaN == Ratio(0, 0)

\* pandas / numpy division, element by element
Divide(num, den) ==
    IF den # 0 THEN Ratio(num, den) ELSE IF num = 0 THEN NaN ELSE Infinity

\* one row of the training frame
Row(fuel_quantity, rate_per_liter, total_amount, pump_id, employee_id, hour_of_day, day_of_week, is_fraud) ==
    [fuel_quantity |-> fuel_quantity, rate_per_liter |-> rate_per_liter,
     total_amount |-> total_amount, pump_id |-> pump_id, employee_id |-> employee_id,
     hour_of_day |-> hour_of_day, day_of_week |-> day_of_week, is_fraud |-> is_fraud]

\* value_counts() of a column, looked up for one value
ValueCount(df, column, value) ==
    Cardinality({i \in DOMAIN df : df[i][column] = value})

\* train_model.py: create_enhanced_features; the frame with its new columns
create_enhanced_features(df) ==
    [i \in DOMAIN df |->
        LET row == df[i]
            expected_amount == row.fuel_quantity * row.rate_per_liter
        IN  row @@
            [expected_amount |-> expected_amount,
             amount_deviation |->
                 Divide(Abs(InExpectedUnits(row.total_amount) - expected_amount),
                        expected_amount),
             rate_deviation |->
                 IF row.rate_per_liter < NormalRateMin \/ row.rate_per_liter > NormalRateMax
                 THEN Ratio(Abs(row.rate_per_liter - ((NormalRateMin + NormalRateMax) \div 2)),
                            (NormalRateMax - NormalRateMin) \div 2)
                 ELSE Whole(0),
             quantity_anomaly |->
                 IF \/ row.fuel_quantity < Litres(NormalQtyMin)
                    \/ row.fuel_quantity > Litres(NormalQtyMax)
                 THEN 1 ELSE 0,
             is_unusual_hour |->
                 IF \/ row.hour_of_day < UnusualHourBefore
                    \/ row.hour_of_day > UnusualHourAfter
                 THEN 1 ELSE 0,
             emp_transaction_count |-> ValueCount(df, "employee_id", row.employee_id),
             pump_transaction_count |-> ValueCount(df, "pump_id", row.pump_id)]]

\* a column's value as the number it stands for: quantities, rates and
\* amounts are kept in hundredths, the two deviations as the quotients they
\* are, every other column as a whole number
ColumnValue(row, column) ==
    IF column \in {"fuel_quantity", "rate_per_liter", "total_amount"}
    THEN Ratio(row[column], 100)
    ELSE IF column \in {"amount_deviation", "rate_deviation"}
    THEN row[column]
    ELSE Whole(row[column])

\* train_model.py line 163: df[feature_columns].values, one row of it
SelectColumns(row, columns) ==
    [i \in DOMAIN columns |-> ColumnValue(row, columns[i])]

----------------------------------------------------------------------------
(* The two feature derivations, applied to sampled inputs *)

\* rows a frame may hold: a normal sale, an undercharge at night, a low
\* rate before opening, a small quantity, and rows whose quantity or rate
\* is zero, with and without a charge
DataRows ==
    {Row(5000, 150, 7500, 1, 130, 10, 3, 0), Row(5000, 150, 2500, 4, 130, 23, 6, 1),
     Row(2500, 80, 2000, 3, 140, 5, 1, 1), Row(200, 150, 300, 1, 125, 22, 7, 1),
     Row(0, 150, 500, 1, 130, 10, 3, 0), Row(0, 150, 0, 2, 101, 6, 3, 0),
     Row(5000, 0, 2500, 2, 101, 10, 3, 1)}

\* frames of one or two rows
DataFrames == {<<a>> : a \in DataRows} \cup {<<a, b>> : a, b \in DataRows}

\* <<fuel_quantity, rate_per_liter, total_amount, pump_id, employee_id>> for
\* create_features: rates at, inside and beside the ends of the normal
\* range, quantities at and beside the ends of theirs, charged exactly or
\* not, and a zero quantity and a zero rate
FeatureArgs ==
    {<<5000, 120, 6000, 1, 130>>, <<5000, 200, 10000, 1, 130>>,
     <<5000, 160, 8000, 1, 130>>, <<5000, 119, 5950, 2, 101>>,
     <<5000, 201, 10050, 2, 101>>, <<2500, 80, 2000, 3, 140>>,
     <<2500, 80, 5000, 3, 140>>, <<5000, 240, 12000, 3, 140>>,
     <<1000, 150, 1500, 1, 125>>, <<8000, 150, 12000, 1, 125>>,
     <<999, 150, 1499, 2, 125>>, <<8001, 150, 12002, 2, 125>>,
     <<200, 150, 300, 2, 125>>, <<200, 80, 900, 2, 125>>,
     <<0, 150, 500, 1, 130>>, <<5000, 0, 2500, 1, 130>>, <<0, 150, 0, 1, 130>>}

\* the clock and the counts one create_features call reads
FeatureEnvironments == {e \in Environments : e.explained_at = e.now}

FeatureInit ==
    /\ files = Files(Missing, Missing, Missing, Missing)
    /\ predictor = load_model(files)
    /\ calls = <<>>
    /\ responses = <<>>
    /\ apiTransactions = <<>>
    /\ pc = [r \in Requests |-> "idle"]
    /\ req = [r \in Requests |-> NoRequest]
    /\ transactions = <<>>
    /\ fraud_alerts = <<>>
    /\ pump_metrics = <<>>
    /\ trainer \in {[pc |-> "generated", df |-> df] : df \in DataFrames}
    /\ loader = Returned

\* train_model.py line 153: df = create_enhanced_features(df)
derive_training_features ==
    /\ trainer.pc = "generated"
    /\ trainer' = [trainer EXCEPT !.pc = "derived", !.df = create_enhanced_features(trainer.df)]

\* one call of enhanced_predictor.create_features
call_create_features(t, env) ==
    /\ calls = <<>>
    /\ calls' = <<[args |-> t, env |-> env,
                   result |-> create_features(t[1], t[2], t[3], t[4], t[5], env)]>>

DeriveTrainingFeatures ==
    /\ derive_training_features
    /\ UNCHANGED <<responses, apiTransactions, files, predictor, calls, loader>>
    /\ UNCHANGED appVars

CreateFeatures ==
    /\ \E t \in FeatureArgs, env \in FeatureEnvironments : call_create_features(t, env)
    /\ UNCHANGED <<responses, apiTransactions, files, predictor, trainer, loader>>
    /\ UNCHANGED appVars

FeatureNext == DeriveTrainingFeatures \/ CreateFeatures

FeatureSpec == FeatureInit /\ [][FeatureNext]_vars

----------------------------------------------------------------------------
(* train_model.py: a training run beside a load_model call *)

\* generate_realistic_fuel_data, sampled: three normal rows and two fraud
\* rows within the ranges it draws from (an undercharge and a manipulated
\* rate; a small quantity and an overcharge), enough of each label for the
\* stratified split
GeneratedFrames ==
    {<<Row(5000, 150, 7500, 1, 130, 10, 3, 0), Row(2550, 145, 3698, 3, 101, 6, 1, 0),
       Row(4000, 180, 7100, 7, 250, 15, 5, 0), Row(5000, 150, 4500, 4, 130, 23, 6, 1),
       Row(4000, 80, 3200, 3, 140, 5, 1, 1)>>,
     <<Row(1000, 120, 1200, 2, 100, 21, 7, 0), Row(8000, 200, 16000, 20, 300, 12, 2, 0),
       Row(3000, 160, 4900, 5, 200, 9, 4, 0), Row(200, 150, 300, 1, 125, 21, 7, 1),
       Row(3000, 150, 7000, 9, 150, 2, 3, 1)>>}

\* the files in the order train_advanced_fraud_model dumps them, which is
\* also the order load_model reads them
ArtifactOrder == <<"fraud_model", "scaler", "feature_columns", "training_stats">>

\* the predictor's field a file is loaded into
FieldOf(file) == IF file = "fraud_model" THEN "model" ELSE file

\* EnhancedFraudPredictor.__init__: the four fields are None
Unloaded ==
    [model |-> None, scaler |-> None, feature_columns |-> None,
     training_stats |-> None, log |-> <<>>]

\* what the training run leaves on disk once its four dumps are done
TrainedFiles ==
    Files(trainer.best_model, trainer.scaler, FeatureColumnsFile, TrainingStatsFile)

TrainInit ==
    /\ files \in FileSystems
    /\ predictor = Unloaded
    /\ loader = [pc |-> "loading", next |-> 1]
    /\ trainer = NotTraining
    /\ calls = <<>>
    /\ responses = <<>>
    /\ apiTransactions = <<>>
    /\ pc = [r \in Requests |-> "idle"]
    /\ req = [r \in Requests |-> NoRequest]
    /\ transactions = <<>>
    /\ fraud_alerts = <<>>
    /\ pump_metrics = <<>>

\* train_model.py lines 150-151: the run starts and generates its frame;
\* replaced records the directory the run found
generate_data(df) ==
    /\ trainer.pc = "off"
    /\ trainer' = [pc |-> "generated", df |-> df, replaced |-> files]

\* train_model.py line 182: the contamination fractions swept, in percent
contamination_values == <<10, 15, 20, 25>>

\* train_test_split(test_size=0.2, stratify=y): the sets of rows that can be
\* held out, one row of each label out of five
StratifiedSplits(df) ==
    {{n, f} : n \in {i \in DOMAIN df : df[i].is_fraud = 0},
              f \in {i \in DOMAIN df : df[i].is_fraud = 1}}

\* IsolationForest(contamination=...).fit(X_normal): a detector of the 13
\* columns whose threshold flags more vectors the larger the contamination
Fit(contamination, X_normal) ==
    Detector(Len(feature_columns), TrainedDetector.offset - 100 * (contamination - 10),
             TrainedDetector.modulus)

\* one row of X_test_scaled
ScaledRow(scaler, row) == transform(scaler, SelectColumns(row, feature_columns))

\* np.mean(y_pred_binary == y_test): the test rows whose label the detector
\* predicts, over the test rows
Accuracy(model, scaler, df, test) ==
    Ratio(Cardinality({i \in test :
              (predict(model, ScaledRow(scaler, df[i])) = -1) = (df[i].is_fraud = 1)}),
          Cardinality(test))

\* a > b for two quotients with positive denominators
Exceeds(a, b) == a.num * b.den > b.num * a.den

\* train_model.py lines 163-182: the columns are selected, the frame is
\* split, the scaler is fitted on the training part, X_normal is the
\* training rows labelled normal, and the sweep starts with no model
split_data(test) ==
    /\ trainer.pc = "derived"
    /\ trainer' = [trainer EXCEPT !.pc = "sweeping"] @@
                      [test |-> test,
                       X_normal |-> {i \in DOMAIN trainer.df \ test : trainer.df[i].is_fraud = 0},
                       scaler |-> Scaler(3, 2),
                       best_model |-> None, best_score |-> Whole(0),
                       sweep |-> 1, log |-> <<>>, fitted_on |-> <<>>]

\* sweep_contamination keeping every model it fits, better or not
sweep_contamination_last ==
    /\ trainer.pc = "sweeping"
    /\ LET contamination == contamination_values[trainer.sweep]
           model == Fit(contamination, trainer.X_normal)
           accuracy == Accuracy(model, trainer.scaler, trainer.df, trainer.test)
       IN  trainer' = [trainer EXCEPT
               !.log = Append(@, accuracy),
               !.fitted_on = Append(@, trainer.X_normal),
               !.best_score = accuracy,
               !.best_model = model,
               !.sweep = @ + 1,
               !.pc = IF trainer.sweep = Len(contamination_values) THEN "swept" ELSE @]

\* train_model.py lines 184-209: one turn of the loop over
\* contamination_values: fit on X_normal, predict the test rows, log the
\* accuracy, keep the model if it beats best_score
sweep_contamination ==
    /\ trainer.pc = "sweeping"
    /\ LET contamination == contamination_values[trainer.sweep]
           model == Fit(contamination, trainer.X_normal)
           accuracy == Accuracy(model, trainer.scaler, trainer.df, trainer.test)
           better == Exceeds(accuracy, trainer.best_score)
       IN  trainer' = [trainer EXCEPT
               !.log = Append(@, accuracy),
               !.fitted_on = Append(@, trainer.X_normal),
               !.best_score = IF better THEN accuracy ELSE @,
               !.best_model = IF better THEN model ELSE @,
               !.sweep = @ + 1,
               !.pc = IF trainer.sweep = Len(contamination_values) THEN "swept" ELSE @]

\* train_model.py lines 211-220: the final evaluation calls
\* best_model.predict, which raises when the sweep kept no model
evaluate_best ==
    /\ trainer.pc = "swept"
    /\ trainer' = IF trainer.best_model = None
                  THEN [trainer EXCEPT !.pc = "failed"]
                  ELSE [trainer EXCEPT !.pc = "fitted"] @@ [next |-> 1, writing |-> FALSE]

\* the object the run dumps to a file
DumpedObject(file) ==
    CASE file = "fraud_model" -> trainer.best_model
      [] file = "scaler" -> trainer.scaler
      [] file = "feature_columns" -> FeatureColumnsFile
      [] file = "training_stats" -> TrainingStatsFile

\* joblib.dump opens its file for writing: what was there is truncated, and
\* until the dump is complete a load of the file raises
open_dump ==
    /\ trainer.pc = "fitted"
    /\ ~trainer.writing
    /\ files' = [files EXCEPT ![ArtifactOrder[trainer.next]] = Missing]
    /\ trainer' = [trainer EXCEPT !.writing = TRUE]

\* joblib.dump returns: the file holds the new object (lines 225-238)
finish_dump ==
    /\ trainer.pc = "fitted"
    /\ trainer.writing
    /\ files' = [files EXCEPT ![ArtifactOrder[trainer.next]] =
                     DumpedObject(ArtifactOrder[trainer.next])]
    /\ trainer' = IF trainer.next = Len(ArtifactOrder)
                  THEN [trainer EXCEPT !.pc = "done", !.writing = FALSE]
                  ELSE [trainer EXCEPT !.next = @ + 1, !.writing = FALSE]

\* enhanced_predictor.py lines 22-29: the next joblib.load of the try block.
\* A load that raises ends the block with the error logged; the last load
\* is followed by the success message.
load_next ==
    /\ loader.pc = "loading"
    /\ LET file == ArtifactOrder[loader.next]
       IN  IF files[file] = Missing
           THEN /\ predictor' = [predictor EXCEPT
                       !.log = Append(@, "ERROR Error loading enhanced model")]
                /\ loader' = [loader EXCEPT !.pc = "fallback"]
           ELSE IF loader.next = Len(ArtifactOrder)
           THEN /\ predictor' = [predictor EXCEPT
                       ![FieldOf(file)] = files[file],
                       !.log = Append(@, "INFO Enhanced fraud detection model loaded successfully")]
                /\ loader' = Returned
           ELSE /\ predictor' = [predictor EXCEPT ![FieldOf(file)] = files[file]]
                /\ loader' = [loader EXCEPT !.next = @ + 1]

\* enhanced_predictor.py lines 30-35: the detector alone is loaded again
load_fallback ==
    /\ loader.pc = "fallback"
    /\ IF files.fraud_model = Missing
       THEN predictor' = [predictor EXCEPT
                !.model = None, !.log = Append(@, "ERROR No model available")]
       ELSE predictor' = [predictor EXCEPT
                !.model = files.fraud_model, !.log = Append(@, "INFO Fallback to basic model")]
    /\ loader' = Returned

GenerateData ==
    /\ \E df \in GeneratedFrames : generate_data(df)
    /\ UNCHANGED <<responses, apiTransactions, files, predictor, calls, loader>>
    /\ UNCHANGED appVars

SplitData ==
    /\ \E test \in StratifiedSplits(trainer.df) : split_data(test)
    /\ UNCHANGED <<responses, apiTransactions, files, predictor, calls, loader>>
    /\ UNCHANGED appVars

SweepContamination ==
    /\ sweep_contamination
    /\ UNCHANGED <<responses, apiTransactions, files, predictor, calls, loader>>
    /\ UNCHANGED appVars

EvaluateBest ==
    /\ evaluate_best
    /\ UNCHANGED <<responses, apiTransactions, files, predictor, calls, loader>>
    /\ UNCHANGED appVars

OpenDump ==
    /\ open_dump
    /\ UNCHANGED <<responses, apiTransactions, predictor, calls, loader>>
    /\ UNCHANGED appVars

FinishDump ==
    /\ finish_dump
    /\ UNCHANGED <<responses, apiTransactions, predictor, calls, loader>>
    /\ UNCHANGED appVars

LoadNext ==
    /\ load_next
    /\ UNCHANGED <<responses, apiTransactions, files, calls, trainer>>
    /\ UNCHANGED appVars

LoadFallback ==
    /\ load_fallback
    /\ UNCHANGED <<responses, apiTransactions, files, calls, trainer>>
    /\ UNCHANGED appVars

\* the training run is another process (dashboard.py runs it with
\* subprocess.run): its steps interleave with those of load_model
TrainNext ==
    \/ GenerateData
    \/ DeriveTrainingFeatures
    \/ SplitData
    \/ SweepContamination
    \/ EvaluateBest
    \/ OpenDump
    \/ FinishDump
    \/ LoadNext
    \/ LoadFallback

TrainSpec == TrainInit /\ [][TrainNext]_vars

----------------------------------------------------------------------------
(* Claims about the rule-based handlers, under RuleSpec *)

NumericTriple(form) ==
    IsNumeric(form.fuel_qty) /\ IsNumeric(form.rate) /\ IsNumeric(form.amount)

SameTriple(f, g) ==
    /\ f.fuel_qty = g.fuel_qty
    /\ f.rate = g.rate
    /\ f.amount = g.amount

\* |total_amount - fuel_quantity * rate_per_liter| in 1/10000 $
DiffOf(form) ==
    LET d == 100 * form.amount.val - form.fuel_qty.val * form.rate.val
    IN  IF d >= 0 THEN d ELSE 0 - d

SeverityRank(class) ==
    CASE class = "success" -> 0
      [] class = "warning" -> 1
      [] class = "danger" -> 2

\* C2: under the rule-based strategy a difference above 10 dollars is high
\* risk, one above 5 and up to 10 is medium risk, one up to 5 is low risk,
\* for every numeric input, and two requests with the same fuel quantity,
\* rate and amount get the same result whatever their pump and employee ids.
C2_RuleThresholds ==
    /\ \A i \in DOMAIN responses :
          LET r == responses[i]
              d == DiffOf(r.form)
          IN  NumericTriple(r.form) =>
                /\ d > 100000 =>
                      r.prediction = "High Risk - Amount mismatch detected"
                          /\ r.class = "danger"
                /\ (d > 50000 /\ d <= 100000) =>
                      r.prediction = "Medium Risk - Minor discrepancy"
                          /\ r.class = "warning"
                /\ d <= 50000 =>
                      r.prediction = "Low Risk - Transaction appears normal"
                          /\ r.class = "success"
    /\ \A i, j \in DOMAIN responses :
          (NumericTriple(responses[i].form)
              /\ SameTriple(responses[i].form, responses[j].form)) =>
                /\ responses[i].prediction = responses[j].prediction
                /\ responses[i].class = responses[j].class

\* C2's case: a difference of exactly 10 dollars (medium, not high) answered
\* twice, for two different pumps
C2_Witness ==
    \E i, j \in DOMAIN responses :
        /\ i # j
        /\ NumericTriple(responses[i].form)
        /\ SameTriple(responses[i].form, responses[j].form)
        /\ responses[i].form.pump_id # responses[j].form.pump_id
        /\ DiffOf(responses[i].form) = 100000
        /\ responses[i].class = "warning"
        /\ responses[j].class = "warning"

IsScenario1(form) ==
    form.fuel_qty = Num(2550) /\ form.rate = Num(145) /\ form.amount = Num(3698)

IsScenario2(form) ==
    form.fuel_qty = Num(5000) /\ form.rate = Num(150) /\ form.amount = Num(2500)

C4_RuleMonotone ==
    \A i, j \in DOMAIN responses :
        LET a == responses[i]
            b == responses[j]
        IN  (/\ a.handler = b.handler
             /\ NumericTriple(a.form) /\ NumericTriple(b.form)
             /\ a.form.fuel_qty = b.form.fuel_qty
             /\ a.form.rate = b.form.rate
             /\ DiffOf(a.form) <= DiffOf(b.form))
            => SeverityRank(a.class) <= SeverityRank(b.class)

\* C4's case: an undercharge of 50 dollars and an overcharge of 5.01 dollars
\* on the same quantity and rate, the first high and the second medium
C4_Witness ==
    \E i, j \in DOMAIN responses :
        /\ responses[i].handler = responses[j].handler
        /\ responses[i].form.fuel_qty = Num(5000)
        /\ responses[j].form.fuel_qty = Num(5000)
        /\ responses[i].form.rate = responses[j].form.rate
        /\ responses[i].form.amount = Num(8001)
        /\ responses[j].form.amount = Num(2500)
        /\ responses[i].class = "warning"
        /\ responses[j].class = "danger"

\* a field that is no number, or a number that is not positive
InvalidField(field) == ~IsNumeric(field) \/ field.val <= 0

InvalidForm(form) ==
    \/ InvalidField(form.fuel_qty)
    \/ InvalidField(form.rate)
    \/ InvalidField(form.amount)
    \/ InvalidField(form.pump_id)
    \/ InvalidField(form.emp_id)

\* C9, for the persisting handler of src/api/index.py: a request with a field
\* that is no number or is not positive is answered with an error, before any
\* scoring, and no row is committed for it.
C9_ApiRejectsInvalidInput ==
    \A i \in DOMAIN responses :
        LET r == responses[i]
        IN  (r.handler = "api/index.py" /\ InvalidForm(r.form)) =>
                /\ r.prediction = "Error: Please enter valid numeric values"
                /\ r.transaction_id = 0
                /\ \A k \in DOMAIN apiTransactions :
                      ~InvalidField(Num(apiTransactions[k].fuel_qty))

----------------------------------------------------------------------------
(* Claims about the predictor, under PredictorSpec *)

\* |total_amount - fuel_quantity * rate_per_liter| of a call, in 1/10000 $
AmountDiff(args) ==
    LET d == 100 * args[3] - args[1] * args[2]
    IN  IF d >= 0 THEN d ELSE 0 - d

ValidArgs(args) == \A k \in 1..5 : args[k] > 0

AmountDeviationOf(call) == call.result.features[8]

\* C1: for valid input, the amount_deviation entry create_features produces
\* is |total_amount - fuel_quantity*rate_per_liter| over
\* fuel_quantity*rate_per_liter, is not negative, and is 0 exactly when
\* fuel_quantity*rate_per_liter equals total_amount.
C1_AmountDeviation ==
    \A i \in DOMAIN calls :
        LET c == calls[i]
            dev == AmountDeviationOf(c)
        IN  (c.result.path = "enhanced" /\ ValidArgs(c.args)) =>
                /\ dev.den = c.args[1] * c.args[2]
                /\ dev.num = AmountDiff(c.args)
                /\ dev.den > 0
                /\ dev.num >= 0
                /\ (dev.num = 0 <=> c.args[1] * c.args[2] = 100 * c.args[3])

\* C1's case: features derived for an undercharge (25.00 for 75.00 expected)
\* and for an amount that matches the expected one
C1_Witness ==
    \E i, j \in DOMAIN calls :
        /\ calls[i].result.path = "enhanced"
        /\ calls[i].args[3] * 100 < calls[i].args[1] * calls[i].args[2]
        /\ AmountDeviationOf(calls[i]).num = 500000
        /\ calls[j].result.path = "enhanced"
        /\ AmountDeviationOf(calls[j]).num = 0

\* C5 as stated: two predict_fraud calls with the same five arguments, the
\* same two counters and the same loaded artifact return the same is_fraud,
\* confidence and explanation and score the same feature vector.
C5_SameInputsSameDecision ==
    \A i, j \in DOMAIN calls :
        (/\ calls[i].args = calls[j].args
         /\ calls[i].env.emp_transaction_count = calls[j].env.emp_transaction_count
         /\ calls[i].env.pump_transaction_count = calls[j].env.pump_transaction_count
         /\ calls[i].self = calls[j].self)
        => calls[i].result = calls[j].result

\* C10 as stated: with no detector loaded, the decision follows the rule
\* thresholds on |total_amount - expected_amount| (above 10 dollars fraud,
\* up to 5 dollars not) and the fallback was logged.
C10_FallsBackToRule ==
    \A i \in DOMAIN calls :
        calls[i].self.model = None =>
            /\ (AmountDiff(calls[i].args) > 100000 => calls[i].result.is_fraud)
            /\ (AmountDiff(calls[i].args) <= 50000 => ~calls[i].result.is_fraud)
            /\ \E k \in DOMAIN calls[i].self.log :
                   calls[i].self.log[k] = "ERROR No model available"

----------------------------------------------------------------------------
(* Claims about the persisting predict handler, under Spec and SeqSpec *)

\* no request is between its first commit and its answer
Quiescent == \A r \in Requests : pc[r] \notin InFlight

TransactionsOf(pump_id) ==
    {i \in DOMAIN transactions : transactions[i].pump_id = pump_id}

FraudsOf(pump_id) ==
    {i \in TransactionsOf(pump_id) : transactions[i].is_fraud}

RECURSIVE FuelOver(_)
FuelOver(ids) ==
    IF ids = {} THEN 0
    ELSE LET i == CHOOSE j \in ids : TRUE
         IN  transactions[i].fuel_quantity + FuelOver(ids \ {i})

RECURSIVE RevenueOver(_)
RevenueOver(ids) ==
    IF ids = {} THEN 0
    ELSE LET i == CHOOSE j \in ids : TRUE
         IN  transactions[i].total_amount + RevenueOver(ids \ {i})

\* C6: every PumpMetrics row has 0 <= fraud_count <= total_transactions and
\* fraud_percentage = fraud_count / total_transactions * 100, or 0 when
\* total_transactions is 0, whatever the interleaving of the requests.
C6_RollupInvariant ==
    \A k \in DOMAIN pump_metrics :
        LET m == pump_metrics[k]
        IN  /\ 0 <= m.fraud_count
            /\ m.fraud_count <= m.total_transactions
            /\ m.fraud_percentage.den > 0
            /\ IF m.total_transactions = 0
               THEN m.fraud_percentage.num = 0
               ELSE m.fraud_percentage.num * m.total_transactions
                        = m.fraud_count * 100 * m.fraud_percentage.den

\* C6's case: a pump with two transactions, one of them a fraud, rolled up
C6_Witness ==
    \E k \in DOMAIN pump_metrics :
        /\ pump_metrics[k].total_transactions = 2
        /\ pump_metrics[k].fraud_count = 1
        /\ pump_metrics[k].fraud_percentage = Ratio(100, 2)

RowMatchesTransactions(m) ==
    /\ m.total_transactions = Cardinality(TransactionsOf(m.pump_id))
    /\ m.fraud_count = Cardinality(FraudsOf(m.pump_id))
    /\ m.total_fuel_dispensed = FuelOver(TransactionsOf(m.pump_id))
    /\ m.total_revenue = RevenueOver(TransactionsOf(m.pump_id))

\* after a request served alone, the row of its pump is the aggregate
RollupsMatch ==
    \A r \in Requests :
        pc[r] = "done" =>
            /\ MetricsRowOf(PumpOf(r)) # 0
            /\ RowMatchesTransactions(pump_metrics[MetricsRowOf(PumpOf(r))])

\* a step never lowers a row's counts, and changes or creates only the row
\* of the pump of the request that commits
RollupsGrow ==
    /\ \A k \in DOMAIN pump_metrics :
          /\ k \in DOMAIN pump_metrics'
          /\ pump_metrics'[k].pump_id = pump_metrics[k].pump_id
          /\ pump_metrics'[k].total_transactions >= pump_metrics[k].total_transactions
          /\ pump_metrics'[k].fraud_count >= pump_metrics[k].fraud_count
    /\ \A k \in DOMAIN pump_metrics' :
          (k \notin DOMAIN pump_metrics \/ pump_metrics'[k] # pump_metrics[k]) =>
              \E r \in Requests :
                  /\ pc[r] = "commit"
                  /\ pc'[r] = "done"
                  /\ PumpOf(r) = pump_metrics'[k].pump_id

\* C7: with the requests served one at a time, after each successful request
\* the PumpMetrics row of its pump is the aggregate of the Transaction rows of
\* that pump (count, frauds, fuel, revenue); total_transactions and
\* fraud_count never decrease, and no other pump's row changes.
C7_SequentialRollup == [](Quiescent => RollupsMatch) /\ [][RollupsGrow]_vars

\* C7's case: two requests for one pump and none in flight, the second
\* having updated the row the first created
C7_Witness ==
    /\ Quiescent
    /\ \E a, b \in Requests :
          /\ a # b
          /\ pc[a] = "done" /\ pc[b] = "done"
          /\ PumpOf(a) = PumpOf(b)
          /\ req[a].found = 0
          /\ req[b].found # 0
          /\ pump_metrics[req[b].found].total_transactions = 2

\* C8 as stated: whatever the interleaving of the requests for a pump, once
\* all have finished the row's total_transactions and fraud_count are the
\* numbers of Transaction rows and of fraud rows of the pump.
C8_NoLostUpdate ==
    Quiescent =>
        \A k \in DOMAIN pump_metrics :
            /\ pump_metrics[k].total_transactions
                   = Cardinality(TransactionsOf(pump_metrics[k].pump_id))
            /\ pump_metrics[k].fraud_count
                   = Cardinality(FraudsOf(pump_metrics[k].pump_id))

----------------------------------------------------------------------------
(* Claims about failures inside scoring *)

\* scoring the form raises inside predict_fraud, whatever the clock reads
ScoringFails(form) ==
    \A env \in AppEnvironments :
        predict_fraud(predictor, form.fuel_qty.val, form.rate.val, form.amount.val,
                      form.pump_id.val, form.emp_id.val, env).path = "error"

\* C11 as stated: a request whose scoring failed is treated as not scored:
\* no Transaction row is persisted for it and no fraud or non-fraud verdict
\* is shown for it.
C11_FailedScoringNotScored ==
    \A r \in Requests :
        (pc[r] \notin {"idle", "rejected"} /\ ScoringFails(req[r].form)) =>
            /\ req[r].transaction_id = 0
            /\ req[r].prediction \notin {"Fraud Detected", "Transaction Normal"}

----------------------------------------------------------------------------
(* Claims about the feature derivations, under FeatureSpec *)

\* the frame row with the raw fields of a create_features call
RowOfCall(call) ==
    Row(call.args[1], call.args[2], call.args[3], call.args[4], call.args[5],
        call.env.now.hour, call.env.now.weekday + 1, 0)

\* the vector the training frame holds for that row, in the order of
\* feature_columns, with the two counts the call drew
TrainingVectorOf(call) ==
    SelectColumns(
        [create_enhanced_features(<<RowOfCall(call)>>)[1] EXCEPT
            !.emp_transaction_count = call.env.emp_transaction_count,
            !.pump_transaction_count = call.env.pump_transaction_count],
        feature_columns)

\* C14: the vector create_features builds has 13 entries and holds, position
\* by position, the columns of feature_columns, the list the model is fitted
\* on and persisted with in train_advanced_fraud_model.
C14_VectorOrderMatchesTraining ==
    \A k \in DOMAIN calls :
        /\ Len(calls[k].result) = 13
        /\ Len(feature_columns) = 13
        /\ calls[k].args[1] * calls[k].args[2] > 0 =>
              calls[k].result = TrainingVectorOf(calls[k])

\* C14's case: a vector whose 13 entries are told apart by their values
\* where it matters: deviations that differ, an hour that is not the day, a
\* flag set and a flag clear, two different counts
C14_Witness ==
    \E k \in DOMAIN calls :
        LET X == calls[k].result
        IN  /\ calls[k].args[1] * calls[k].args[2] > 0
            /\ X[8] # X[9] /\ X[8].num > 0 /\ X[9].num > 0
            /\ X[6] # X[7]
            /\ X[10] # X[11]
            /\ X[12] # X[13]
            /\ X[1] # X[2] /\ X[2] # X[3] /\ X[4] # X[5]

\* C17: rate_deviation is 0 for every rate in [1.20, 2.00], ends included,
\* and |rate - 1.60| / 0.40 otherwise, which is positive, whether or not the
\* charge matches the expected amount.
C17_RateDeviation ==
    \A k \in DOMAIN calls :
        LET rate == calls[k].args[2]
            rate_deviation == calls[k].result[9]
        IN  IF 120 <= rate /\ rate <= 200
            THEN rate_deviation.num = 0 /\ rate_deviation.den > 0
            ELSE /\ rate_deviation.den > 0
                 /\ rate_deviation.num > 0
                 /\ rate_deviation.num * 40 = Abs(rate - 160) * rate_deviation.den

\* C17's case: a rate of 0.80 charged exactly, with deviation 0.80 / 0.40
C17_Witness ==
    \E k \in DOMAIN calls :
        /\ calls[k].args[2] = 80
        /\ InExpectedUnits(calls[k].args[3]) = calls[k].args[1] * calls[k].args[2]
        /\ calls[k].result[9] = Ratio(80, 40)

\* C17's other case: the two ends of the range, with no deviation
C17_WitnessEnds ==
    \E k \in DOMAIN calls :
        /\ calls[k].args[2] \in {120, 200}
        /\ calls[k].result[9].num = 0

\* C18: quantity_anomaly is 1 exactly when fuel_quantity < 10 or > 80 (10
\* and 80 are normal), whatever the rate and the charge.
C18_QuantityAnomaly ==
    \A k \in DOMAIN calls :
        calls[k].result[10] =
            Whole(IF calls[k].args[1] < 1000 \/ calls[k].args[1] > 8000 THEN 1 ELSE 0)

\* C18's case: 2.0 L at 1.50 charged 3.00 is flagged
C18_Witness ==
    \E k \in DOMAIN calls :
        /\ calls[k].args[1] = 200 /\ calls[k].args[2] = 150 /\ calls[k].args[3] = 300
        /\ calls[k].result[10] = Whole(1)

\* C18's other case: exactly 10 L or 80 L is not flagged
C18_WitnessEnds ==
    \E k \in DOMAIN calls :
        /\ calls[k].args[1] \in {1000, 8000}
        /\ calls[k].result[10] = Whole(0)

\* C19: is_unusual_hour is 1 exactly when hour_of_day < 6 or > 22, and 0 for
\* every hour of 6..22; hour_of_day is in 0..23 and day_of_week in 1..7, with
\* Monday as 1.  The training frame's flag follows the same rule.
C19_UnusualHour ==
    /\ \A k \in DOMAIN calls :
          LET hour == calls[k].env.now.hour
              X == calls[k].result
          IN  /\ X[6] = Whole(hour) /\ hour \in 0..23
              /\ X[7].den = 1 /\ X[7].num \in 1..7
              /\ (calls[k].env.now.weekday = 0) <=> (X[7].num = 1)
              /\ X[11] = Whole(IF hour < 6 \/ hour > 22 THEN 1 ELSE 0)
    /\ trainer.pc = "derived" =>
          \A i \in DOMAIN trainer.df :
              trainer.df[i].is_unusual_hour =
                  IF trainer.df[i].hour_of_day < 6 \/ trainer.df[i].hour_of_day > 22
                  THEN 1 ELSE 0

\* C19's case: six o'clock on a Monday is day 1 and not an unusual hour
C19_Witness ==
    \E k \in DOMAIN calls :
        /\ calls[k].env.now = [hour |-> 6, weekday |-> 0]
        /\ calls[k].result[6] = Whole(6)
        /\ calls[k].result[7] = Whole(1)
        /\ calls[k].result[11] = Whole(0)

\* C19's other cases: 22 h is usual, 23 h and 5 h are not
C19_WitnessNight ==
    \E k \in DOMAIN calls :
        /\ calls[k].env.now.hour \in {23, 5}
        /\ calls[k].result[11] = Whole(1)

----------------------------------------------------------------------------
(* Claims about the results of predict_fraud, under PredictorSpec *)

\* the vector the detector was given on the trained-model path
ScoredVector(call) ==
    IF call.self.scaler # None
    THEN transform(call.self.scaler, call.result.features)
    ELSE call.result.features

\* C13: on every path the result's is_fraud is a boolean and its confidence
\* is >= 0; on the trained-model path is_fraud is true exactly when the
\* detector labels the vector an outlier, and the confidence is the absolute
\* value of the detector's anomaly score.
C13_ResultContract ==
    \A k \in DOMAIN calls :
        LET call == calls[k]
            score == decision_function(call.self.model, ScoredVector(call))
        IN  /\ call.result.is_fraud \in BOOLEAN
            /\ call.result.confidence >= 0
            /\ call.result.path \in {"unavailable", "enhanced", "basic", "error"}
            /\ call.result.path = "enhanced" =>
                  /\ call.result.is_fraud = (score < 0)
                  /\ call.result.confidence = Abs(score)

\* C13's case: the trained model has answered with an outlier, of negative
\* score
C13_Witness ==
    \E k \in DOMAIN calls :
        /\ calls[k].result.path = "enhanced"
        /\ calls[k].result.is_fraud
        /\ decision_function(calls[k].self.model, ScoredVector(calls[k])) < 0
        /\ calls[k].result.confidence > 0

----------------------------------------------------------------------------
(* Claims about the artifact files, under TrainSpec *)

\* the four fields load_model sets
Components(p) ==
    [model |-> p.model, scaler |-> p.scaler, feature_columns |-> p.feature_columns,
     training_stats |-> p.training_stats]

\* the directory before the training run touched it
FilesBefore == IF trainer.pc \in {"off"} THEN files ELSE trainer.replaced

\* the directory after the run, once the run has a model to dump
FilesAfter == IF trainer.pc \in {"fitted", "done"} THEN TrainedFiles ELSE FilesBefore

\* C15 as stated: however a training run and load_model interleave, the
\* loader ends with what it would have loaded from the directory as it was
\* before the run or as it is after it: never a partially written file, never
\* components of two runs.
C15_LoadIsAtomic ==
    loader.pc = "returned" =>
        Components(predictor) \in {Components(load_model(FilesBefore)),
                                   Components(load_model(FilesAfter))}

\* a load_model call that no training run overlaps loads what load_model
\* is defined to load
LoadAloneMatches ==
    (loader.pc = "returned" /\ trainer.pc \in {"off", "generated", "derived"}) =>
        predictor = load_model(files)

----------------------------------------------------------------------------
(* Claims about the rollup rows, under Spec *)

\* C16: in every reachable state there is at most one PumpMetrics row per
\* pump_id, also when concurrent requests are each the first for a pump.
C16_OneRowPerPump ==
    \A j, k \in DOMAIN pump_metrics :
        pump_metrics[j].pump_id = pump_metrics[k].pump_id => j = k

\* C16's case: two requests for a pump without a row have both looked it up
\* and found none; both have finished and the pump has its row
C16_Witness ==
    \E a, b \in Requests :
        /\ a # b
        /\ PumpOf(a) = PumpOf(b)
        /\ req[a].transaction_id # 0 /\ req[b].transaction_id # 0
        /\ req[a].found = 0 /\ req[b].found = 0
        /\ pc[a] = "done"
        /\ pc[b] \in {"done", "error"}
        /\ MetricsRowOf(PumpOf(a)) # 0

----------------------------------------------------------------------------
(* Claims about the explanation, under PredictorSpec *)

\* the signal category a reason line belongs to: 1 amount, 2 rate,
\* 3 quantity, 4 hour; 0 for a line that is no reason
CategoryOf(text) ==
    CASE text \in {"Undercharged by", "Overcharged by"} -> 1
      [] text \in {"Unusually low fuel rate", "Unusually high fuel rate"} -> 2
      [] text \in {"Suspiciously low fuel quantity", "Suspiciously high fuel quantity"} -> 3
      [] text = "Transaction during unusual hours" -> 4
      [] OTHER -> 0

\* the texts of the explanation's lines carrying a reason of a category
ReasonsOf(explanation, category) ==
    {explanation[i].text : i \in {j \in DOMAIN explanation :
                                      CategoryOf(explanation[j].text) = category}}

FraudExplained(call) == call.result.path = "enhanced" /\ call.result.is_fraud

\* C20: on the fraud path the explanation is the fraud header, then at most
\* one reason per category in the order amount, rate, quantity, hour, then
\* the confidence with 3 decimals; the amount reason is there exactly when
\* the deviation exceeds 20% (Undercharged when the charge is below the
\* expected amount, Overcharged otherwise), the rate reason exactly when the
\* rate is below 1.20 or above 2.00, the quantity reason exactly when the
\* quantity is below 10 or above 80.
C20_FraudExplanation ==
    \A k \in DOMAIN calls :
        FraudExplained(calls[k]) =>
            LET e == calls[k].result.explanation
                n == Len(e)
                qty == calls[k].args[1]
                rate == calls[k].args[2]
                charged == calls[k].args[3] * 100
                expected == qty * rate
                above20 == expected > 0 /\ Abs(charged - expected) * 5 > expected
            IN  /\ n >= 2
                /\ e[1].text = "FRAUD DETECTED:"
                /\ e[n].text = "Confidence"
                /\ Abs(e[n].value * 10 - calls[k].result.confidence) <= 5
                /\ \A i \in 2..(n - 1) : CategoryOf(e[i].text) \in 1..4
                /\ \A i, j \in 2..(n - 1) :
                      i < j => CategoryOf(e[i].text) < CategoryOf(e[j].text)
                /\ ReasonsOf(e, 1) =
                      IF ~above20 THEN {}
                      ELSE IF charged < expected THEN {"Undercharged by"}
                      ELSE {"Overcharged by"}
                /\ ReasonsOf(e, 2) =
                      IF rate < 120 THEN {"Unusually low fuel rate"}
                      ELSE IF rate > 200 THEN {"Unusually high fuel rate"}
                      ELSE {}
                /\ ReasonsOf(e, 3) =
                      IF qty < 1000 THEN {"Suspiciously low fuel quantity"}
                      ELSE IF qty > 8000 THEN {"Suspiciously high fuel quantity"}
                      ELSE {}

\* C20's case: an undercharge of 50.00 on 75.00 found a fraud at night, with
\* the amount reason before the hour reason
C20_Witness ==
    \E k \in DOMAIN calls :
        /\ FraudExplained(calls[k])
        /\ calls[k].args = <<5000, 150, 2500, 4, 130>>
        /\ Len(calls[k].result.explanation) = 4
        /\ calls[k].result.explanation[2] = Line("Undercharged by", 500000)
        /\ calls[k].result.explanation[3].text = "Transaction during unusual hours"

\* C20's other cases: a fraud explained by its rate, one by its quantity,
\* and an overcharge
C20_WitnessOthers ==
    \E k \in DOMAIN calls :
        /\ FraudExplained(calls[k])
        /\ \/ ReasonsOf(calls[k].result.explanation, 2) # {}
           \/ ReasonsOf(calls[k].result.explanation, 3) # {}
           \/ ReasonsOf(calls[k].result.explanation, 1) = {"Overcharged by"}

NormalExplained(call) == call.result.path = "enhanced" /\ ~call.result.is_fraud

\* C21: on the normal path the explanation is exactly the normal header, the
\* three affirmative statements (amount matches expected, normal fuel rate,
\* reasonable quantity) in that order and the confidence line, with no fraud
\* reason, whatever the input.
C21_NormalExplanation ==
    \A k \in DOMAIN calls :
        NormalExplained(calls[k]) =>
            LET e == calls[k].result.explanation
            IN  /\ [i \in DOMAIN e |-> e[i].text] =
                      <<"NORMAL TRANSACTION:", "Amount matches expected",
                        "Normal fuel rate", "Reasonable quantity", "Confidence">>
                /\ e[2].value = calls[k].args[3]
                /\ e[3].value = calls[k].args[2]
                /\ e[4].value = calls[k].args[1]
                /\ Abs(e[5].value * 10 - calls[k].result.confidence) <= 5
                /\ \A i \in DOMAIN e : CategoryOf(e[i].text) = 0

\* C21's case: a transaction that would have had fraud reasons (a low rate,
\* at an unusual hour) found normal
C21_Witness ==
    \E k \in DOMAIN calls :
        /\ NormalExplained(calls[k])
        /\ calls[k].args[2] < 120
        /\ calls[k].env.explained_at.hour > 22
        /\ Len(calls[k].result.explanation) = 5

\* what the scorer computed before the explanation was generated
ScorerPair(call) ==
    LET X == ScoredVector(call)
    IN  <<predict(call.self.model, X) = -1, Abs(decision_function(call.self.model, X))>>

\* a predict_fraud call returns what the scorer computed and the vector that
\* was derived for it
NarrationKeepsDecision ==
    \A k \in DOMAIN calls :
        calls[k].result.path = "enhanced" =>
            /\ <<calls[k].result.is_fraud, calls[k].result.confidence>> = ScorerPair(calls[k])
            /\ calls[k].result.features =
                   create_features(calls[k].args[1], calls[k].args[2], calls[k].args[3],
                                   calls[k].args[4], calls[k].args[5], calls[k].env)
            /\ calls[k].self = predictor

\* a step leaves the predictor's state as it was and rewrites no earlier result
NarrationKeepsPredictor ==
    /\ Components(predictor') = Components(predictor)
    /\ \A k \in DOMAIN calls : k \in DOMAIN calls' /\ calls'[k] = calls[k]

\* C22: generating the explanation is pure: predict_fraud returns exactly
\* the (is_fraud, confidence) pair the scorer computed before the
\* explanation, and the predictor's model, scaler, feature_columns and
\* training_stats and the feature vector are left unchanged.
C22_ExplanationIsPure == []NarrationKeepsDecision /\ [][NarrationKeepsPredictor]_vars

\* C22's case: a fraud explained with reasons, whose confidence has more
\* decimals than the explanation prints
C22_Witness ==
    \E k \in DOMAIN calls :
        /\ FraudExplained(calls[k])
        /\ Len(calls[k].result.explanation) >= 3
        /\ calls[k].result.confidence % 10 # 0
        /\ calls[k].self = predictor

----------------------------------------------------------------------------
(* Claims about the contamination sweep, under TrainSpec *)

SweepEnded == trainer.pc \in {"swept", "failed", "fitted", "done"}

\* the rows of the training part labelled normal
NormalTrainingRows ==
    {i \in DOMAIN trainer.df \ trainer.test : trainer.df[i].is_fraud = 0}

\* C23: when the sweep ends, the model kept has the highest held-out accuracy
\* of the whole grid [0.1, 0.15, 0.2, 0.25] and best_score is that accuracy; a
\* model has been kept, and is the one persisted; every detector of the
\* sweep was fitted on training vectors labelled normal only.
C23_SweepKeepsBest ==
    SweepEnded =>
        /\ Len(trainer.log) = 4
        /\ contamination_values = <<10, 15, 20, 25>>
        /\ \A k \in 1..4 : ~Exceeds(trainer.log[k], trainer.best_score)
        /\ \E k \in 1..4 :
              /\ trainer.log[k] = trainer.best_score
              /\ trainer.best_model = Fit(contamination_values[k], NormalTrainingRows)
              /\ Accuracy(trainer.best_model, trainer.scaler, trainer.df, trainer.test)
                     = trainer.best_score
        /\ trainer.best_model # None
        /\ trainer.pc # "failed"
        /\ trainer.pc = "done" => files.fraud_model = trainer.best_model
        /\ \A k \in 1..4 :
              /\ trainer.fitted_on[k] # {}
              /\ trainer.fitted_on[k] \subseteq NormalTrainingRows

\* C23's case: a sweep whose best accuracy is neither its first nor its
\* last, run to the end with its model dumped
C23_Witness ==
    /\ trainer.pc = "done"
    /\ Exceeds(trainer.best_score, trainer.log[1])
    /\ Exceeds(trainer.best_score, trainer.log[4])
    /\ files.fraud_model = trainer.best_model

----------------------------------------------------------------------------
(* Claims about what a predict request leaves behind, under Spec *)

TransactionOf(r) == {i \in DOMAIN transactions : transactions[i].id = req[r].transaction_id}

AlertsOf(id) == {i \in DOMAIN fraud_alerts : fraud_alerts[i].transaction_id = id}

\* C24 as stated: a request answered with an error has left no Transaction
\* row; a request answered with a verdict has its Transaction row, its
\* FraudAlert if it is a fraud, and the row of its pump committed; under every
\* interleaving of the requests.
C24_AllOrNothing ==
    \A r \in Requests :
        /\ pc[r] \in {"error", "rejected"} =>
              \A i \in DOMAIN transactions : transactions[i].id # req[r].transaction_id
        /\ pc[r] = "done" =>
              /\ TransactionOf(r) # {}
              /\ req[r].is_fraud => AlertsOf(req[r].transaction_id) # {}
              /\ MetricsRowOf(PumpOf(r)) # 0

----------------------------------------------------------------------------
(* Alerts and the transactions they belong to *)

AlertCount(id) == Cardinality({a \in DOMAIN fraud_alerts : fraud_alerts[a].transaction_id = id})

AlertsMatchFrauds ==
    /\ \A i \in DOMAIN transactions :
           AlertCount(transactions[i].id) = IF transactions[i].is_fraud THEN 1 ELSE 0
    /\ \A a \in DOMAIN fraud_alerts :
           /\ fraud_alerts[a].alert_level = "HIGH"
           /\ \E i \in DOMAIN transactions :
                  transactions[i].id = fraud_alerts[a].transaction_id

AlertsStartUnreviewed ==
    \A a \in DOMAIN fraud_alerts' :
        a \notin DOMAIN fraud_alerts => ~fraud_alerts'[a].reviewed

\* C25: once the predict requests made so far have all been answered, every
\* Transaction with is_fraud has exactly one FraudAlert and every other one has
\* none, every alert has level 'HIGH' and the id of an existing Transaction,
\* and an alert is unreviewed in the state that creates it.
C25_AlertsMatchFrauds ==
    [](Quiescent => AlertsMatchFrauds) /\ [][AlertsStartUnreviewed]_vars

\* two answered requests, a fraud with its alert and a normal one without
C25_Witness ==
    /\ Quiescent
    /\ \E i, j \in DOMAIN transactions :
           /\ transactions[i].is_fraud /\ AlertCount(transactions[i].id) = 1
           /\ ~transactions[j].is_fraud /\ AlertCount(transactions[j].id) = 0
           /\ j < i

----------------------------------------------------------------------------
(* Reviews *)

ReviewFields == {"reviewed", "reviewed_at", "reviewed_by"}

Rewritten == {a \in DOMAIN fraud_alerts : fraud_alerts'[a] # fraud_alerts[a]}

ReviewedStaysReviewed ==
    \A a \in DOMAIN fraud_alerts :
        /\ a \in DOMAIN fraud_alerts'
        /\ fraud_alerts[a].reviewed => fraud_alerts'[a].reviewed

ReviewedIsStamped ==
    \A a \in DOMAIN fraud_alerts :
        fraud_alerts[a].reviewed =>
            fraud_alerts[a].reviewed_at # None /\ fraud_alerts[a].reviewed_by # None

ReviewTouchesOneAlert ==
    Rewritten # {} =>
        /\ Cardinality(Rewritten) = 1
        /\ responses' = <<ReviewResponse(CHOOSE a \in Rewritten : TRUE, 200)>>
        /\ \A a \in Rewritten : \A f \in DOMAIN fraud_alerts[a] \ ReviewFields :
               fraud_alerts'[a][f] = fraud_alerts[a][f]
        /\ Len(fraud_alerts') = Len(fraud_alerts)
        /\ UNCHANGED <<transactions, pump_metrics>>

ReviewAnswered == responses' # responses /\ responses' # <<>> /\ responses'[1].handler = "dashboard.py"

ReviewOfExistingSets ==
    (ReviewAnswered /\ responses'[1].status = 200) =>
        /\ responses'[1].alert_id \in DOMAIN fraud_alerts
        /\ fraud_alerts'[responses'[1].alert_id].reviewed
        /\ UNCHANGED <<transactions, pump_metrics>>

ReviewOfMissingChangesNothing ==
    (ReviewAnswered /\ responses'[1].status = 404) =>
        /\ responses'[1].alert_id \notin DOMAIN fraud_alerts
        /\ UNCHANGED <<transactions, fraud_alerts, pump_metrics>>

----------------------------------------------------------------------------
(* What load_model leaves in the predictor *)

EnhancedArtifacts == {"scaler", "feature_columns", "training_stats"}

ArtifactsAllOrNothing ==
    \/ \A f \in EnhancedArtifacts \cup {"model"} : predictor[f] # None
    \/ \A f \in EnhancedArtifacts : predictor[f] = None

EnhancedPathHasScaler ==
    \A k \in DOMAIN calls :
        Len(calls[k].result.features) = 13 => calls[k].self.scaler # None

BasicVectorMeetsBasicLoad ==
    \A k \in DOMAIN calls :
        Len(calls[k].result.features) = 5 => calls[k].self.scaler = None

\* C27 as stated: after load_model has returned the four artifacts are all
\* loaded, or scaler, feature_columns and training_stats are all None; no call
\* scores a 13-feature vector without a scaler, and no call hands the 5-field
\* vector to a detector that was loaded together with a scaler.
C27_LoadIsAllOrNothing ==
    ArtifactsAllOrNothing /\ EnhancedPathHasScaler /\ BasicVectorMeetsBasicLoad

----------------------------------------------------------------------------
(* The hour reason and the hour flag that was scored *)

\* C28 as stated: in a call on the fraud path the explanation carries the
\* unusual-hours reason exactly when entry is_unusual_hour of the scored
\* vector is 1, whatever the clock did between the two readings.
C28_HourReasonMatchesFlag ==
    \A k \in DOMAIN calls :
        FraudExplained(calls[k]) =>
            (ReasonsOf(calls[k].result.explanation, 4) # {}
                <=> calls[k].result.features[11] = Whole(1))

====
